---- MODULE Spec2Model ----
(***************************************************************************)
(* pomeranian: forward-mode (Dual) and reverse-mode (Node) automatic       *)
(* differentiation.  Numbers are exact rationals n/d tagged with the       *)
(* Python / numpy scalar type that carries them; d = 0 is the non-finite   *)
(* float (inf / nan) numpy produces with a warning.                        *)
(***************************************************************************)
EXTENDS Integers, Sequences, FiniteSets, TLC

VARIABLES engine, funcs, n_inputs, last, first, n_calls, graph, opres

vars == <<engine, funcs, n_inputs, last, first, n_calls, graph, opres>>

(***************************************************************************)
(* Bounds                                                                  *)
(***************************************************************************)
\* largest absolute input value offered to a call
MaxInput == 2
\* longest input sequence offered to a call
MaxInputLen == 3
\* the functions (by position in Catalog) on which call sequences are run
MaxRepeatFunc == 3
\* most calls made on one engine object
MaxCalls == 3
\* most operators and elementary functions applied one after another
MaxOps == 1
\* largest value of a Dual or Node to which operators are applied
MaxReal == 2
\* largest numerator or denominator the exact arithmetic works on
MaxMagnitude == 4096
\* largest base and exponent of an exact integer power
MaxPowBase == 16
MaxPowExp == 6
\* Node operations applied in a row to one graph
MaxGraphOps == 2
\* edge visits of one _gradiant call
MaxVisits == 32

(***************************************************************************)
(* Numbers                                                                 *)
(***************************************************************************)
Abs(x) == IF x < 0 THEN -x ELSE x

Min(a, b) == IF a < b THEN a ELSE b

RECURSIVE GCD(_, _)
GCD(a, b) == IF b = 0 THEN a ELSE GCD(b, a % b)

RECURSIVE IPow(_, _)
IPow(b, e) == IF e = 0 THEN 1 ELSE b * IPow(b, e - 1)

\* a raised exception
Err(e) == [k |-> "err", e |-> e]

IsErr(x) == x.k = "err"

\* the outcome of an operation on a and b when evaluating one of them did
\* not give a number: the first exception raised, left operand first; a
\* value the exact arithmetic cannot represent raises nothing and leaves
\* the outcome unrepresented
Failed(a, b) ==
    IF IsErr(a) /\ a.e # "Inexact" THEN a
    ELSE IF IsErr(b) /\ b.e # "Inexact" THEN b
    ELSE Err("Inexact")

\* the number (a/b) * (ln 2)^l (b # 0) in lowest terms, carried by scalar
\* type t; zero is normalised to l = 0
NumL(a, b, l, t) ==
    LET g == GCD(Abs(a), Abs(b))
        s == IF b < 0 THEN -1 ELSE 1
    IN  [k |-> "num", n |-> s * (a \div g), d |-> s * (b \div g),
         l |-> IF a = 0 THEN 0 ELSE l, t |-> t]

Num(a, b, t) == NumL(a, b, 0, t)

\* Python literals
PyInt(i) == Num(i, 1, "int")

PyFloat(a, b) == Num(a, b, "float")

\* inf / nan of numpy floats
NonFinite == [k |-> "num", n |-> 0, d |-> 0, l |-> 0, t |-> "float64"]

IsNum(x) == x.k = "num"

IsFinite(x) == x.k = "num" /\ x.d # 0

IsNumpy(x) == x.t \in {"int64", "float64"}

IsIntegral(x) == x.t \in {"int", "int64"}

\* the value of a number, without the type that carries it
Val(x) == IF x.k = "num" THEN <<x.n, x.d, x.l>> ELSE <<x.k, x.e>>

\* result type of +, -, * on two scalars
ArithT(a, b) ==
    IF IsIntegral(a) /\ IsIntegral(b)
    THEN IF IsNumpy(a) \/ IsNumpy(b) THEN "int64" ELSE "int"
    ELSE IF IsNumpy(a) \/ IsNumpy(b) THEN "float64" ELSE "float"

\* result type of / and of float-valued powers
FloatT(a, b) == IF IsNumpy(a) \/ IsNumpy(b) THEN "float64" ELSE "float"

\* a number outside the range the exact arithmetic works on
Big(a) == Abs(a.n) > MaxMagnitude \/ a.d > MaxMagnitude

NumNeg(a) ==
    IF IsErr(a) THEN a
    ELSE IF a.d = 0 THEN NonFinite
    ELSE NumL(-a.n, a.d, a.l, a.t)

\* a sum is exact when both terms carry the same power of ln 2
NumAdd(a, b) ==
    IF IsErr(a) \/ IsErr(b) THEN Failed(a, b)
    ELSE IF a.d = 0 \/ b.d = 0 THEN NonFinite
    ELSE IF Big(a) \/ Big(b) THEN Err("Inexact")
    ELSE IF a.n # 0 /\ b.n # 0 /\ a.l # b.l THEN Err("Inexact")
    ELSE NumL(a.n * b.d + b.n * a.d, a.d * b.d,
              IF a.n # 0 THEN a.l ELSE b.l, ArithT(a, b))

NumSub(a, b) ==
    IF IsErr(a) \/ IsErr(b) THEN Failed(a, b)
    ELSE IF a.d = 0 \/ b.d = 0 THEN NonFinite
    ELSE IF Big(a) \/ Big(b) THEN Err("Inexact")
    ELSE IF a.n # 0 /\ b.n # 0 /\ a.l # b.l THEN Err("Inexact")
    ELSE NumL(a.n * b.d - b.n * a.d, a.d * b.d,
              IF a.n # 0 THEN a.l ELSE b.l, ArithT(a, b))

NumMul(a, b) ==
    IF IsErr(a) \/ IsErr(b) THEN Failed(a, b)
    ELSE IF a.d = 0 \/ b.d = 0 THEN NonFinite
    ELSE IF Big(a) \/ Big(b) THEN Err("Inexact")
    ELSE NumL(a.n * b.n, a.d * b.d, a.l + b.l, ArithT(a, b))

\* Python raises on a zero divisor, numpy scalars warn and give inf / nan
NumDiv(a, b) ==
    IF IsErr(a) \/ IsErr(b) THEN Failed(a, b)
    ELSE IF a.d = 0 \/ b.d = 0 THEN NonFinite
    ELSE IF b.n = 0
         THEN IF IsNumpy(a) \/ IsNumpy(b) THEN NonFinite
              ELSE Err("ZeroDivisionError")
    ELSE IF Big(a) \/ Big(b) THEN Err("Inexact")
    ELSE NumL(a.n * b.d, a.d * b.n, a.l - b.l, FloatT(a, b))

\* the square root of a non-negative integer, when it is an integer
IsSquare(m) == \E r \in 0..m : r * r = m

Root(m) == CHOOSE r \in 0..m : r * r = m

\* a ** b; exact for integer exponents and for +-1/2 on rational squares.
\* numpy integers refuse a negative integer exponent.
NumPow(a, b) ==
    IF IsErr(a) \/ IsErr(b) THEN Failed(a, b)
    ELSE IF a.d = 0 \/ b.d = 0 THEN NonFinite
    ELSE IF b.l # 0 THEN Err("Inexact")
    ELSE IF Big(a) \/ Abs(b.n) > MaxPowExp THEN Err("Inexact")
    ELSE IF Abs(b.n) > 1 /\ (Abs(a.n) > MaxPowBase \/ a.d > MaxPowBase)
         THEN Err("Inexact")
    ELSE IF Abs(a.l * b.n) > MaxPowExp THEN Err("Inexact")
    ELSE IF b.d = 1 /\ b.n >= 0
         THEN NumL(IPow(a.n, b.n), IPow(a.d, b.n), a.l * b.n,
                   IF IsIntegral(a) /\ IsIntegral(b) THEN ArithT(a, b)
                   ELSE FloatT(a, b))
    ELSE IF b.d = 1
         THEN IF IsIntegral(a) /\ IsIntegral(b) /\ (IsNumpy(a) \/ IsNumpy(b))
              THEN Err("ValueError")
              ELSE IF a.n = 0
                   THEN IF IsNumpy(a) \/ IsNumpy(b) THEN NonFinite
                        ELSE Err("ZeroDivisionError")
              ELSE NumL(IPow(a.d, -b.n), IPow(a.n, -b.n), a.l * b.n,
                        FloatT(a, b))
    ELSE IF b.d = 2 /\ b.n \in {1, -1} /\ a.n >= 0 /\ a.l = 0
              /\ IsSquare(a.n) /\ IsSquare(a.d)
         THEN IF b.n = 1 THEN Num(Root(a.n), Root(a.d), FloatT(a, b))
              ELSE IF a.n = 0
                   THEN IF IsNumpy(a) \/ IsNumpy(b) THEN NonFinite
                        ELSE Err("ZeroDivisionError")
              ELSE Num(Root(a.d), Root(a.n), FloatT(a, b))
    ELSE Err("Inexact")

NumLt(a, b) == a.n * b.d < b.n * a.d

NumEq(a, b) == a.n = b.n /\ a.d = b.d /\ a.l = b.l

(***************************************************************************)
(* numpy ufuncs on one scalar, at the points where the result is exact     *)
(***************************************************************************)
\* k with 2^k = m, for m a power of two in 1..2^MaxLog
MaxLog == 6

IsPow2(m) == \E k \in 0..MaxLog : IPow(2, k) = m

Log2(m) == CHOOSE k \in 0..MaxLog : IPow(2, k) = m

\* np.log: multiples of ln 2 on powers of two, -inf / nan with a warning
\* on non-positive arguments
np_log(x) ==
    IF IsErr(x) THEN x
    ELSE IF ~IsNum(x) THEN Err("TypeError")
    ELSE IF x.d = 0 \/ x.n <= 0 THEN NonFinite
    ELSE IF x.l = 0 /\ x.d = 1 /\ IsPow2(x.n)
         THEN NumL(Log2(x.n), 1, 1, "float64")
    ELSE IF x.l = 0 /\ x.n = 1 /\ IsPow2(x.d)
         THEN NumL(-Log2(x.d), 1, 1, "float64")
    ELSE Err("Inexact")

\* np.sqrt: nan with a warning on negative arguments
np_sqrt(x) ==
    IF IsErr(x) THEN x
    ELSE IF x.d = 0 \/ x.n < 0 THEN NonFinite
    ELSE IF x.l = 0 /\ IsSquare(x.n) /\ IsSquare(x.d)
         THEN Num(Root(x.n), Root(x.d), "float64")
    ELSE Err("Inexact")

\* the ufuncs whose value at 0 is 0, resp. 1
ZeroAtZero == {"sin", "tan", "arcsin", "arctan", "sinh", "tanh"}

OneAtZero == {"cos", "cosh", "exp"}

np_ufunc(name, x) ==
    IF IsErr(x) THEN x
    ELSE IF name = "log" THEN np_log(x)
    ELSE IF name = "sqrt" THEN np_sqrt(x)
    ELSE IF x.d = 0 THEN NonFinite
    ELSE IF x.n = 0 /\ name \in ZeroAtZero THEN Num(0, 1, "float64")
    ELSE IF x.n = 0 /\ name \in OneAtZero THEN Num(1, 1, "float64")
    ELSE IF name = "arccos" /\ x.n = 1 /\ x.d = 1 /\ x.l = 0
         THEN Num(0, 1, "float64")
    ELSE Err("Inexact")

(***************************************************************************)
(* Operand kinds                                                           *)
(***************************************************************************)
\* a non-numeric operand, such as the string '1'
Str == [k |-> "str"]

Bool(b) == [k |-> "bool", b |-> b]

\* isinstance(x, (int, float)); np.float64 is a float, np.int64 is no int
IsScalar(x) == x.k = "num" /\ x.t \in {"int", "float", "float64"}

IsDual(x) == x.k = "Dual"

IsNode(x) == x.k = "Node"

TypeError == Err("TypeError")

(***************************************************************************)
(* class Dual                                                              *)
(***************************************************************************)
Dual(real, dual) == [k |-> "Dual", real |-> real, dual |-> dual]

\* Dual(real): the derivative defaults to 1
Dual1(real) == Dual(real, PyInt(1))

\* the instance built from two computed parts, unless computing one raised
MkDual(real_part, dual_part) ==
    IF IsErr(real_part) \/ IsErr(dual_part) THEN Failed(real_part, dual_part)
    ELSE Dual(real_part, dual_part)

\* Dual.__eq__ comparing a scalar with the value
Dual_eq_by_value(self, other) ==
    IF IsScalar(other) THEN Bool(NumEq(self.real, other))
    ELSE IF IsDual(other)
         THEN Bool(NumEq(self.real, other.real) /\ NumEq(self.dual, other.dual))
    ELSE TypeError

Dual_eq(self, other) ==
    IF IsScalar(other) THEN Bool(FALSE)
    ELSE IF IsDual(other)
         THEN Bool(NumEq(self.real, other.real) /\ NumEq(self.dual, other.dual))
    ELSE TypeError

Dual_ne(self, other) ==
    IF IsScalar(other) THEN Bool(TRUE)
    ELSE IF IsDual(other)
         THEN Bool(~NumEq(self.real, other.real) \/ ~NumEq(self.dual, other.dual))
    ELSE TypeError

Dual_gt(self, other) ==
    IF IsScalar(other) THEN Bool(NumLt(other, self.real))
    ELSE IF IsDual(other) THEN Bool(NumLt(other.real, self.real))
    ELSE TypeError

Dual_lt(self, other) ==
    IF IsScalar(other) THEN Bool(NumLt(self.real, other))
    ELSE IF IsDual(other) THEN Bool(NumLt(self.real, other.real))
    ELSE TypeError

Dual_le(self, other) ==
    IF IsScalar(other) THEN Bool(~NumLt(other, self.real))
    ELSE IF IsDual(other) THEN Bool(~NumLt(other.real, self.real))
    ELSE TypeError

Dual_ge(self, other) ==
    IF IsScalar(other) THEN Bool(~NumLt(self.real, other))
    ELSE IF IsDual(other) THEN Bool(~NumLt(self.real, other.real))
    ELSE TypeError

Dual_neg(self) == MkDual(NumNeg(self.real), NumNeg(self.dual))

Dual_add(self, other) ==
    IF IsScalar(other) THEN MkDual(NumAdd(self.real, other), self.dual)
    ELSE IF IsDual(other)
         THEN MkDual(NumAdd(self.real, other.real), NumAdd(self.dual, other.dual))
    ELSE TypeError

Dual_radd(self, other) ==
    IF ~(IsScalar(other) \/ IsDual(other)) THEN TypeError
    ELSE Dual_add(self, other)

\* the product with the derivative components multiplied into the value
Dual_mul_leak(self, other) ==
    IF IsScalar(other)
    THEN MkDual(NumMul(self.real, other), NumMul(self.dual, other))
    ELSE IF IsDual(other)
         THEN MkDual(NumAdd(NumMul(self.real, other.real),
                            NumMul(self.dual, other.dual)),
                     NumAdd(NumMul(self.real, other.dual),
                            NumMul(self.dual, other.real)))
    ELSE TypeError

\* a product that leaves out the term of the left operand's derivative
Dual_mul_no_cross(self, other) ==
    IF IsScalar(other)
    THEN MkDual(NumMul(self.real, other), NumMul(self.dual, other))
    ELSE IF IsDual(other)
         THEN MkDual(NumMul(self.real, other.real),
                     NumMul(self.real, other.dual))
    ELSE TypeError

Dual_mul(self, other) ==
    IF IsScalar(other)
    THEN MkDual(NumMul(self.real, other), NumMul(self.dual, other))
    ELSE IF IsDual(other)
         THEN MkDual(NumMul(self.real, other.real),
                     NumAdd(NumMul(self.real, other.dual),
                            NumMul(self.dual, other.real)))
    ELSE TypeError

Dual_rmul(self, other) ==
    IF ~(IsScalar(other) \/ IsDual(other)) THEN TypeError
    ELSE Dual_mul(self, other)

Dual_sub(self, other) ==
    IF IsScalar(other) THEN MkDual(NumSub(self.real, other), self.dual)
    ELSE IF IsDual(other)
         THEN MkDual(NumSub(self.real, other.real), NumSub(self.dual, other.dual))
    ELSE TypeError

Dual_rsub(self, other) ==
    IF IsScalar(other) THEN MkDual(NumSub(other, self.real), NumNeg(self.dual))
    ELSE TypeError

Dual_truediv(self, other) ==
    IF IsScalar(other)
    THEN MkDual(NumDiv(NumMul(self.real, other), NumPow(other, PyInt(2))),
                NumDiv(NumMul(self.dual, other), NumPow(other, PyInt(2))))
    ELSE IF IsDual(other)
         THEN MkDual(NumDiv(self.real, other.real),
                     NumDiv(NumSub(NumMul(self.dual, other.real),
                                   NumMul(self.real, other.dual)),
                            NumPow(other.real, PyInt(2))))
    ELSE TypeError

Dual_rtruediv(self, other) ==
    IF ~IsScalar(other) THEN TypeError
    ELSE MkDual(NumDiv(other, self.real),
                NumMul(NumNeg(NumDiv(other, NumPow(self.real, PyInt(2)))),
                       self.dual))

Dual_pow(self, other) ==
    IF IsScalar(other)
    THEN MkDual(NumPow(self.real, other),
                NumMul(NumMul(NumPow(self.real, NumSub(other, PyInt(1))), other),
                       self.dual))
    ELSE IF IsDual(other)
         THEN LET real_part == NumPow(self.real, other.real)
                  temp1 == NumMul(np_log(self.real), other.dual)
                  temp2 == NumDiv(NumMul(self.dual, other.real), self.real)
              IN  IF IsErr(real_part) THEN real_part
                  ELSE IF IsErr(temp1) THEN temp1
                  ELSE IF IsErr(temp2) THEN temp2
                  ELSE MkDual(real_part,
                              NumMul(NumPow(self.real, other.real),
                                     NumAdd(temp1, temp2)))
    ELSE TypeError

Dual_rpow(self, other) ==
    IF ~IsScalar(other) THEN TypeError
    ELSE MkDual(NumPow(other, self.real),
                NumMul(NumMul(np_log(other), NumPow(other, self.real)),
                       self.dual))

(***************************************************************************)
(* class Node.  An arena holds the Node objects of the running call in     *)
(* creation order (nodes[i].partial_derivs is the edge list of node i) and *)
(* counts the Dual objects constructed.                                    *)
(***************************************************************************)
EmptyArena == [nodes |-> <<>>, nduals |-> 0]

NodeRef(i) == [k |-> "Node", id |-> i]

\* Node(real): a new object with an empty edge list
Node(a, real) ==
    [a EXCEPT !.nodes = Append(@, [real |-> real, partial_derivs |-> <<>>])]

\* the append made on the child's list instead, pointing at the operand
AppendEdge_on_child(a, i, child, partial) ==
    [a EXCEPT !.nodes[child].partial_derivs = Append(@, <<i, partial>>)]

\* self.partial_derivs = [(child, partial)]: the list replaced
AppendEdge_replace(a, i, child, partial) ==
    [a EXCEPT !.nodes[i].partial_derivs = <<<<child, partial>>>>]

\* the append made on both lists: the child refers back to the operand
AppendEdge_both(a, i, child, partial) ==
    [a EXCEPT !.nodes[i].partial_derivs = Append(@, <<child, partial>>),
              !.nodes[child].partial_derivs = Append(@, <<i, partial>>)]

\* self.partial_derivs.append((child, partial))
AppendEdge(a, i, child, partial) ==
    [a EXCEPT !.nodes[i].partial_derivs = Append(@, <<child, partial>>)]

Ret(a, v) == [a |-> a, v |-> v]

\* child = Node(val); self.partial_derivs.append((child, p)); return child
NodeOp1(a, self, val, p) ==
    IF IsErr(val) THEN Ret(a, val)
    ELSE LET a1 == Node(a, val)
             child == Len(a1.nodes)
         IN  IF IsErr(p) THEN Ret(a1, p)
             ELSE Ret(AppendEdge(a1, self.id, child, p), NodeRef(child))

\* the two appends made as one when self and other are the same object
NodeOp2_once(a, self, other, val, p1, p2) ==
    IF IsErr(val) THEN Ret(a, val)
    ELSE LET a1 == Node(a, val)
             child == Len(a1.nodes)
         IN  IF IsErr(p1) THEN Ret(a1, p1)
             ELSE LET a2 == AppendEdge(a1, self.id, child, p1)
                  IN  IF IsErr(p2) THEN Ret(a2, p2)
                      ELSE IF self = other THEN Ret(a2, NodeRef(child))
                      ELSE Ret(AppendEdge(a2, other.id, child, p2),
                               NodeRef(child))

\* child = Node(val); self....append((child, p1)); other....append((child, p2))
NodeOp2(a, self, other, val, p1, p2) ==
    IF IsErr(val) THEN Ret(a, val)
    ELSE LET a1 == Node(a, val)
             child == Len(a1.nodes)
         IN  IF IsErr(p1) THEN Ret(a1, p1)
             ELSE LET a2 == AppendEdge(a1, self.id, child, p1)
                  IN  IF IsErr(p2) THEN Ret(a2, p2)
                      ELSE Ret(AppendEdge(a2, other.id, child, p2),
                               NodeRef(child))

RealOf(a, z) == a.nodes[z.id].real

Node_neg(a, self) ==
    NodeOp1(a, self, NumMul(PyInt(-1), RealOf(a, self)), PyInt(-1))

Node_add(a, self, other) ==
    IF IsNode(other)
    THEN NodeOp2(a, self, other, NumAdd(RealOf(a, self), RealOf(a, other)),
                 PyInt(1), PyInt(1))
    ELSE IF IsScalar(other)
         THEN NodeOp1(a, self, NumAdd(RealOf(a, self), other), PyInt(1))
    ELSE Ret(a, TypeError)

Node_radd(a, self, other) ==
    IF ~(IsScalar(other) \/ IsNode(other)) THEN Ret(a, TypeError)
    ELSE Node_add(a, self, other)

\* Node.__mul__ without the isinstance check on a non-Node operand
Node_mul_unchecked(a, self, other) ==
    IF IsNode(other)
    THEN NodeOp2(a, self, other, NumMul(RealOf(a, self), RealOf(a, other)),
                 RealOf(a, other), RealOf(a, self))
    ELSE NodeOp1(a, self,
                 IF IsNum(other) THEN NumMul(RealOf(a, self), other) ELSE other,
                 other)

Node_mul(a, self, other) ==
    IF IsNode(other)
    THEN NodeOp2(a, self, other, NumMul(RealOf(a, self), RealOf(a, other)),
                 RealOf(a, other), RealOf(a, self))
    ELSE IF IsScalar(other)
         THEN NodeOp1(a, self, NumMul(RealOf(a, self), other), other)
    ELSE Ret(a, TypeError)

Node_rmul(a, self, other) ==
    IF ~(IsScalar(other) \/ IsNode(other)) THEN Ret(a, TypeError)
    ELSE Node_mul(a, self, other)

Node_sub(a, self, other) ==
    IF IsNode(other)
    THEN NodeOp2(a, self, other, NumSub(RealOf(a, self), RealOf(a, other)),
                 PyInt(1), PyInt(-1))
    ELSE IF IsScalar(other)
         THEN NodeOp1(a, self, NumSub(RealOf(a, self), other), PyInt(1))
    ELSE Ret(a, TypeError)

Node_rsub(a, self, other) ==
    IF IsScalar(other)
    THEN NodeOp1(a, self, NumSub(other, RealOf(a, self)), PyInt(-1))
    ELSE Ret(a, TypeError)

Node_truediv(a, self, other) ==
    IF IsNode(other)
    THEN NodeOp2(a, self, other, NumDiv(RealOf(a, self), RealOf(a, other)),
                 NumDiv(PyInt(1), RealOf(a, other)),
                 NumDiv(NumMul(PyInt(-1), RealOf(a, self)),
                        NumPow(RealOf(a, other), PyInt(2))))
    ELSE IF IsScalar(other)
         THEN NodeOp1(a, self, NumDiv(RealOf(a, self), other),
                      NumDiv(PyInt(1), other))
    ELSE Ret(a, TypeError)

\* Node.__rtruediv__ recording other / self.real**2, the sign left out
Node_rtruediv_unsigned(a, self, other) ==
    IF ~IsScalar(other) THEN Ret(a, TypeError)
    ELSE NodeOp1(a, self, NumDiv(other, RealOf(a, self)),
                 NumDiv(other, NumPow(RealOf(a, self), PyInt(2))))

Node_rtruediv(a, self, other) ==
    IF ~IsScalar(other) THEN Ret(a, TypeError)
    ELSE NodeOp1(a, self, NumDiv(other, RealOf(a, self)),
                 NumDiv(NumMul(PyInt(-1), other),
                        NumPow(RealOf(a, self), PyInt(2))))

Node_pow(a, self, other) ==
    IF IsNode(other)
    THEN NodeOp2(a, self, other, NumPow(RealOf(a, self), RealOf(a, other)),
                 NumMul(RealOf(a, other),
                        NumPow(RealOf(a, self),
                               NumSub(RealOf(a, other), PyInt(1)))),
                 NumMul(NumPow(RealOf(a, self), RealOf(a, other)),
                        np_log(RealOf(a, self))))
    ELSE IF IsScalar(other)
         THEN NodeOp1(a, self, NumPow(RealOf(a, self), other),
                      NumMul(other, NumPow(RealOf(a, self),
                                           NumSub(other, PyInt(1)))))
    ELSE Ret(a, TypeError)

Node_rpow(a, self, other) ==
    IF IsScalar(other)
    THEN NodeOp1(a, self, NumPow(other, RealOf(a, self)),
                 NumMul(NumPow(other, RealOf(a, self)), np_log(other)))
    ELSE Ret(a, TypeError)

(***************************************************************************)
(* elem_func: the elementary functions, dispatching on the kind of z      *)
(***************************************************************************)
sin(a, z) ==
    IF IsDual(z) THEN Ret(a, MkDual(np_ufunc("sin", z.real),
                                    NumMul(z.dual, np_ufunc("cos", z.real))))
    ELSE IF IsNode(z)
         THEN NodeOp1(a, z, np_ufunc("sin", RealOf(a, z)),
                      np_ufunc("cos", RealOf(a, z)))
    ELSE IF IsScalar(z) THEN Ret(a, np_ufunc("sin", z))
    ELSE Ret(a, TypeError)

cos(a, z) ==
    IF IsDual(z) THEN Ret(a, MkDual(np_ufunc("cos", z.real),
                                    NumMul(NumNeg(np_ufunc("sin", z.real)), z.dual)))
    ELSE IF IsNode(z)
         THEN NodeOp1(a, z, np_ufunc("cos", RealOf(a, z)),
                      NumNeg(np_ufunc("sin", RealOf(a, z))))
    ELSE IF IsScalar(z) THEN Ret(a, np_ufunc("cos", z))
    ELSE Ret(a, TypeError)

tan(a, z) ==
    IF IsDual(z) THEN Ret(a, MkDual(np_ufunc("tan", z.real),
                                    NumMul(NumDiv(PyFloat(1, 1), NumPow(np_ufunc("cos", z.real), PyInt(2))), z.dual)))
    ELSE IF IsNode(z)
         THEN NodeOp1(a, z, np_ufunc("tan", RealOf(a, z)),
                      NumDiv(PyFloat(1, 1), NumPow(np_ufunc("cos", RealOf(a, z)), PyInt(2))))
    ELSE IF IsScalar(z) THEN Ret(a, np_ufunc("tan", z))
    ELSE Ret(a, TypeError)

exp(a, z) ==
    IF IsDual(z) THEN Ret(a, MkDual(np_ufunc("exp", z.real),
                                    NumMul(np_ufunc("exp", z.real), z.dual)))
    ELSE IF IsNode(z)
         THEN NodeOp1(a, z, np_ufunc("exp", RealOf(a, z)),
                      np_ufunc("exp", RealOf(a, z)))
    ELSE IF IsScalar(z) THEN Ret(a, np_ufunc("exp", z))
    ELSE Ret(a, TypeError)

\* a square root whose derivative leaves out the factor 1/2
sqrt_no_half(a, z) ==
    IF IsDual(z) THEN Ret(a, MkDual(np_sqrt(z.real),
                                    NumMul(NumDiv(PyFloat(1, 1), np_sqrt(z.real)), z.dual)))
    ELSE IF IsNode(z)
         THEN NodeOp1(a, z, np_sqrt(RealOf(a, z)),
                      NumPow(RealOf(a, z), PyFloat(-1, 2)))
    ELSE IF IsScalar(z) THEN Ret(a, np_sqrt(z))
    ELSE Ret(a, TypeError)

sqrt(a, z) ==
    IF IsDual(z) THEN Ret(a, MkDual(np_sqrt(z.real),
                                    NumMul(NumDiv(PyFloat(1, 2), np_sqrt(z.real)), z.dual)))
    ELSE IF IsNode(z)
         THEN NodeOp1(a, z, np_sqrt(RealOf(a, z)),
                      NumMul(PyFloat(1, 2), NumPow(RealOf(a, z), PyFloat(-1, 2))))
    ELSE IF IsScalar(z) THEN Ret(a, np_sqrt(z))
    ELSE Ret(a, TypeError)

log(a, z) ==
    IF IsDual(z) THEN Ret(a, MkDual(np_log(z.real),
                                    NumMul(NumDiv(PyInt(1), z.real), z.dual)))
    ELSE IF IsNode(z)
         THEN NodeOp1(a, z, np_log(RealOf(a, z)),
                      NumDiv(PyFloat(1, 1), RealOf(a, z)))
    ELSE IF IsScalar(z) THEN Ret(a, np_log(z))
    ELSE Ret(a, TypeError)

logb(a, z, base) ==
    IF IsDual(z) THEN Ret(a, MkDual(NumDiv(np_log(z.real), np_log(base)),
                                    NumMul(NumDiv(PyInt(1), NumMul(z.real, np_log(base))), z.dual)))
    ELSE IF IsNode(z)
         THEN NodeOp1(a, z, NumDiv(np_log(RealOf(a, z)), np_log(base)),
                      NumDiv(PyFloat(1, 1), NumMul(RealOf(a, z), np_log(base))))
    ELSE IF IsScalar(z) THEN Ret(a, NumDiv(np_log(z), np_log(base)))
    ELSE Ret(a, TypeError)

arcsin(a, z) ==
    IF IsDual(z) THEN Ret(a, MkDual(np_ufunc("arcsin", z.real),
                                    NumMul(NumDiv(PyFloat(1, 1), np_sqrt(NumSub(PyInt(1), NumPow(z.real, PyInt(2))))), z.dual)))
    ELSE IF IsNode(z)
         THEN NodeOp1(a, z, np_ufunc("arcsin", RealOf(a, z)),
                      NumDiv(PyFloat(1, 1), np_sqrt(NumSub(PyInt(1), NumPow(RealOf(a, z), PyInt(2))))))
    ELSE IF IsScalar(z) THEN Ret(a, np_ufunc("arcsin", z))
    ELSE Ret(a, TypeError)

arccos(a, z) ==
    IF IsDual(z) THEN Ret(a, MkDual(np_ufunc("arccos", z.real),
                                    NumMul(NumDiv(PyFloat(-1, 1), np_sqrt(NumSub(PyInt(1), NumPow(z.real, PyInt(2))))), z.dual)))
    ELSE IF IsNode(z)
         THEN NodeOp1(a, z, np_ufunc("arccos", RealOf(a, z)),
                      NumDiv(PyFloat(-1, 1), np_sqrt(NumSub(PyInt(1), NumPow(RealOf(a, z), PyInt(2))))))
    ELSE IF IsScalar(z) THEN Ret(a, np_ufunc("arccos", z))
    ELSE Ret(a, TypeError)

arctan(a, z) ==
    IF IsDual(z) THEN Ret(a, MkDual(np_ufunc("arctan", z.real),
                                    NumMul(NumDiv(PyFloat(1, 1), NumAdd(PyInt(1), NumPow(z.real, PyInt(2)))), z.dual)))
    ELSE IF IsNode(z)
         THEN NodeOp1(a, z, np_ufunc("arctan", RealOf(a, z)),
                      NumDiv(PyFloat(1, 1), NumAdd(PyInt(1), NumPow(RealOf(a, z), PyInt(2)))))
    ELSE IF IsScalar(z) THEN Ret(a, np_ufunc("arctan", z))
    ELSE Ret(a, TypeError)

sinh(a, z) ==
    IF IsDual(z) THEN Ret(a, MkDual(np_ufunc("sinh", z.real),
                                    NumMul(np_ufunc("cosh", z.real), z.dual)))
    ELSE IF IsNode(z)
         THEN NodeOp1(a, z, np_ufunc("sinh", RealOf(a, z)),
                      np_ufunc("cosh", RealOf(a, z)))
    ELSE IF IsScalar(z) THEN Ret(a, np_ufunc("sinh", z))
    ELSE Ret(a, TypeError)

cosh(a, z) ==
    IF IsDual(z) THEN Ret(a, MkDual(np_ufunc("cosh", z.real),
                                    NumMul(np_ufunc("sinh", z.real), z.dual)))
    ELSE IF IsNode(z)
         THEN NodeOp1(a, z, np_ufunc("cosh", RealOf(a, z)),
                      np_ufunc("sinh", RealOf(a, z)))
    ELSE IF IsScalar(z) THEN Ret(a, np_ufunc("cosh", z))
    ELSE Ret(a, TypeError)

tanh(a, z) ==
    IF IsDual(z) THEN Ret(a, MkDual(np_ufunc("tanh", z.real),
                                    NumMul(z.dual, NumSub(PyInt(1), NumPow(np_ufunc("tanh", z.real), PyInt(2))))))
    ELSE IF IsNode(z)
         THEN NodeOp1(a, z, np_ufunc("tanh", RealOf(a, z)),
                      NumSub(PyInt(1), NumPow(np_ufunc("tanh", RealOf(a, z)), PyInt(2))))
    ELSE IF IsScalar(z) THEN Ret(a, np_ufunc("tanh", z))
    ELSE Ret(a, TypeError)

\* f = lambda x: 1. / (1 + np.exp(-x))
logistic_f(x) ==
    NumDiv(PyFloat(1, 1), NumAdd(PyInt(1), np_ufunc("exp", NumNeg(x))))

logistic(a, z) ==
    IF IsDual(z) THEN Ret(a, MkDual(logistic_f(z.real),
                                    NumMul(NumMul(logistic_f(z.real), NumSub(PyInt(1), logistic_f(z.real))), z.dual)))
    ELSE IF IsNode(z)
         THEN NodeOp1(a, z, logistic_f(RealOf(a, z)),
                      NumMul(logistic_f(RealOf(a, z)), NumSub(PyInt(1), logistic_f(RealOf(a, z)))))
    ELSE IF IsScalar(z) THEN Ret(a, logistic_f(z))
    ELSE Ret(a, TypeError)

(***************************************************************************)
(* Python operator dispatch on two runtime operands                        *)
(***************************************************************************)
\* a Dual operator result: one more Dual object exists unless it raised
DualRet(a, v) ==
    IF IsDual(v) THEN Ret([a EXCEPT !.nduals = @ + 1], v) ELSE Ret(a, v)

\* op on two plain scalars
ScalarOp(op, x, y) ==
    CASE op = "+" -> NumAdd(x, y)
      [] op = "-" -> NumSub(x, y)
      [] op = "*" -> NumMul(x, y)
      [] op = "/" -> NumDiv(x, y)
      [] op = "**" -> NumPow(x, y)

\* x.__op__(y) for a Dual x
DualOp(op, x, y) ==
    CASE op = "+" -> Dual_add(x, y)
      [] op = "-" -> Dual_sub(x, y)
      [] op = "*" -> Dual_mul(x, y)
      [] op = "/" -> Dual_truediv(x, y)
      [] op = "**" -> Dual_pow(x, y)

\* y.__rop__(x) for a Dual y, after x.__op__(y) returned NotImplemented
DualROp(op, y, x) ==
    CASE op = "+" -> Dual_radd(y, x)
      [] op = "-" -> Dual_rsub(y, x)
      [] op = "*" -> Dual_rmul(y, x)
      [] op = "/" -> Dual_rtruediv(y, x)
      [] op = "**" -> Dual_rpow(y, x)

NodeBinOp(op, a, x, y) ==
    CASE op = "+" -> Node_add(a, x, y)
      [] op = "-" -> Node_sub(a, x, y)
      [] op = "*" -> Node_mul(a, x, y)
      [] op = "/" -> Node_truediv(a, x, y)
      [] op = "**" -> Node_pow(a, x, y)

NodeROp(op, a, y, x) ==
    CASE op = "+" -> Node_radd(a, y, x)
      [] op = "-" -> Node_rsub(a, y, x)
      [] op = "*" -> Node_rmul(a, y, x)
      [] op = "/" -> Node_rtruediv(a, y, x)
      [] op = "**" -> Node_rpow(a, y, x)

\* Body applied to x: the value of x is bound to Body's parameter
With(x, Body(_)) == Body(x)

\* x op y: the left operand's method first, the right operand's reflected
\* method when the left operand is a builtin that does not know the right
ItemOp(op, a, x, y) ==
    IF IsDual(x) THEN DualRet(a, DualOp(op, x, y))
    ELSE IF IsNode(x) THEN NodeBinOp(op, a, x, y)
    ELSE IF IsDual(y) THEN DualRet(a, DualROp(op, y, x))
    ELSE IF IsNode(y) THEN NodeROp(op, a, y, x)
    ELSE IF IsNum(x) /\ IsNum(y) THEN Ret(a, ScalarOp(op, x, y))
    ELSE Ret(a, TypeError)

\* np.asarray of a list of objects: the array holds the objects themselves
ndarray(items) == [k |-> "ndarray", items |-> items]

IsArray(x) == x.k = "ndarray"

\* an operation is applied item by item when its left operand is an array,
\* or its right operand is one and the left operand a number, which leaves
\* the operation to the array; the methods of Dual and Node take an array
\* as one operand, and raise
Elementwise(x, y) == IsArray(x) \/ (IsArray(y) /\ IsNum(x))

\* the items of an operand, an operand that is no array repeated n times
Broadcast(x, n) == IF IsArray(x) THEN x.items ELSE [i \in 1..n |-> x]

\* the number of item operations of x op y
Items(x, y) ==
    IF ~Elementwise(x, y) THEN 1
    ELSE IF IsArray(x) THEN Len(x.items) ELSE Len(y.items)

\* the operator of the items, item by item
RECURSIVE ArrayOp(_, _, _, _, _)
ArrayOp(op, a, xs, ys, acc) ==
    IF xs = <<>> THEN Ret(a, ndarray(acc))
    ELSE With(ItemOp(op, a, Head(xs), Head(ys)),
              LAMBDA r : IF IsErr(r.v) THEN r
                         ELSE ArrayOp(op, r.a, Tail(xs), Tail(ys),
                                      Append(acc, r.v)))

\* the result of the item operations r: an array, or the one item
Boxed(r, array) ==
    IF IsErr(r.v) THEN r
    ELSE Ret(r.a, IF array THEN r.v ELSE r.v.items[1])

\* x op y
BinOp(op, a, x, y) ==
    IF IsArray(x) /\ IsArray(y) /\ Len(x.items) # Len(y.items)
    THEN Ret(a, Err("ValueError"))
    ELSE Boxed(ArrayOp(op, a,
                       IF Elementwise(x, y) THEN Broadcast(x, Items(x, y))
                       ELSE <<x>>,
                       IF Elementwise(x, y) THEN Broadcast(y, Items(x, y))
                       ELSE <<y>>,
                       <<>>),
               Elementwise(x, y))

ItemNeg(a, x) ==
    IF IsDual(x) THEN DualRet(a, Dual_neg(x))
    ELSE IF IsNode(x) THEN Node_neg(a, x)
    ELSE IF IsNum(x) THEN Ret(a, NumNeg(x))
    ELSE Ret(a, TypeError)

RECURSIVE ArrayNeg(_, _, _)
ArrayNeg(a, xs, acc) ==
    IF xs = <<>> THEN Ret(a, ndarray(acc))
    ELSE With(ItemNeg(a, Head(xs)),
              LAMBDA r : IF IsErr(r.v) THEN r
                         ELSE ArrayNeg(r.a, Tail(xs), Append(acc, r.v)))

UnaryNeg(a, x) ==
    Boxed(ArrayNeg(a, IF IsArray(x) THEN x.items ELSE <<x>>, <<>>),
          IsArray(x))

\* the module pomeranian.elem_func, and numpy, as values bound to a name
ElemModule == [k |-> "module", name |-> "elem_func"]

NumpyModule == [k |-> "module", name |-> "numpy"]

\* the elementary functions of the library
ElemNames ==
    {"sin", "cos", "tan", "exp", "sqrt", "log", "logb", "arcsin", "arccos",
     "arctan", "sinh", "cosh", "tanh", "logistic"}

\* elementary_function.<fn>(z)
ElemCall(fn, a, z) ==
    CASE fn = "sin" -> sin(a, z)
      [] fn = "cos" -> cos(a, z)
      [] fn = "tan" -> tan(a, z)
      [] fn = "exp" -> exp(a, z)
      [] fn = "sqrt" -> sqrt(a, z)
      [] fn = "log" -> log(a, z)
      [] fn = "arcsin" -> arcsin(a, z)
      [] fn = "arccos" -> arccos(a, z)
      [] fn = "arctan" -> arctan(a, z)
      [] fn = "sinh" -> sinh(a, z)
      [] fn = "cosh" -> cosh(a, z)
      [] fn = "tanh" -> tanh(a, z)
      [] fn = "logistic" -> logistic(a, z)
      [] OTHER -> Ret(a, TypeError)

\* a Dual returned by an elementary function is one more Dual object
ElemRet(r) == IF IsDual(r.v) THEN DualRet(r.a, r.v) ELSE r

\* <module>.<fn>(z): numpy's ufuncs reject a Dual or a Node with a TypeError
ModuleCall(m, fn, a, z) ==
    IF m.k # "module" THEN Ret(a, Err("AttributeError"))
    ELSE IF m.name = "elem_func" THEN ElemRet(ElemCall(fn, a, z))
    ELSE IF IsNum(z) THEN Ret(a, np_ufunc(fn, z))
    ELSE Ret(a, TypeError)

ModuleCall2(m, fn, a, z, base) ==
    IF m.k # "module" THEN Ret(a, Err("AttributeError"))
    ELSE IF m.name = "elem_func" /\ fn = "logb" THEN ElemRet(logb(a, z, base))
    ELSE Ret(a, TypeError)

(***************************************************************************)
(* User functions.  An expression is a tuple:                              *)
(*   <<"var", name>>            a name                                     *)
(*   <<"const", text, value>>   a numeric literal                          *)
(*   <<"neg", e>>               -e                                         *)
(*   <<"bin", op, l, r>>        l op r                                     *)
(*   <<"call", alias, fn, e>>   alias.fn(e)                                *)
(*   <<"call2", alias, fn, e, b>>  alias.fn(e, b), b a literal             *)
(* A function has parameters, assignment statements <<target, e>> and a    *)
(* return of one expression ("expr"), of a bracketed list ("list") or of   *)
(* a bare tuple ("tuple"); aliases are the names its module binds to the   *)
(* elementary-function library.                                            *)
(***************************************************************************)
V(name) == <<"var", name>>

K(i) == <<"const", ToString(i), PyInt(i)>>

KF(text, a, b) == <<"const", text, PyFloat(a, b)>>

Neg(e) == <<"neg", e>>

Bin(op, l, r) == <<"bin", op, l, r>>

Call(alias, fn, e) == <<"call", alias, fn, e>>

Call2(alias, fn, e, b) == <<"call2", alias, fn, e, b>>

Fn(kind, params, stmts, rkind, outs, aliases) ==
    [kind |-> kind, params |-> params, stmts |-> stmts, rkind |-> rkind,
     outs |-> outs, aliases |-> aliases]

\* the expressions whose values the function returns, in the order of the
\* returned list
Outs(f) == IF f.rkind = "repeat" THEN f.outs \o f.outs ELSE f.outs

\* a namespace: names bound to values
Bind(env, name, v) ==
    [x \in DOMAIN env \cup {name} |-> IF x = name THEN v ELSE env[x]]

RECURSIVE BindAll(_, _, _)
BindAll(env, names, vals) ==
    IF names = <<>> \/ vals = <<>> THEN env
    ELSE BindAll(Bind(env, Head(names), Head(vals)), Tail(names), Tail(vals))

\* evaluation of an expression in a namespace, left operand first; an
\* exception ends the evaluation
RECURSIVE Eval(_, _, _)
Eval(e, env, a) ==
    CASE e[1] = "var" ->
            IF e[2] \in DOMAIN env THEN Ret(a, env[e[2]])
            ELSE Ret(a, Err("NameError"))
      [] e[1] = "const" -> Ret(a, e[3])
      [] e[1] = "neg" ->
            With(Eval(e[2], env, a),
                 LAMBDA x : IF IsErr(x.v) THEN x ELSE UnaryNeg(x.a, x.v))
      [] e[1] = "bin" ->
            With(Eval(e[3], env, a),
                 LAMBDA x :
                     IF IsErr(x.v) THEN x
                     ELSE With(Eval(e[4], env, x.a),
                               LAMBDA y : IF IsErr(y.v) THEN y
                                          ELSE BinOp(e[2], y.a, x.v, y.v)))
      [] e[1] = "call" ->
            IF e[2] \notin DOMAIN env THEN Ret(a, Err("NameError"))
            ELSE With(Eval(e[4], env, a),
                      LAMBDA z : IF IsErr(z.v) THEN z
                                 ELSE ModuleCall(env[e[2]], e[3], z.a, z.v))
      [] e[1] = "call2" ->
            IF e[2] \notin DOMAIN env THEN Ret(a, Err("NameError"))
            ELSE With(Eval(e[4], env, a),
                      LAMBDA z : IF IsErr(z.v) THEN z
                                 ELSE ModuleCall2(env[e[2]], e[3], z.a, z.v,
                                                  e[5][3]))

\* evaluation of a list of expressions, in order
RECURSIVE EvalList(_, _, _, _)
EvalList(es, env, a, acc) ==
    IF es = <<>> THEN Ret(a, [k |-> "list", items |-> acc])
    ELSE With(Eval(Head(es), env, a),
              LAMBDA x : IF IsErr(x.v) THEN x
                         ELSE EvalList(Tail(es), env, x.a, Append(acc, x.v)))

\* execution of the assignment statements
RECURSIVE Exec(_, _, _)
Exec(stmts, env, a) ==
    IF stmts = <<>> THEN [a |-> a, v |-> [k |-> "none"], env |-> env]
    ELSE With(Eval(Head(stmts)[2], env, a),
              LAMBDA x :
                  IF IsErr(x.v) THEN [a |-> x.a, v |-> x.v, env |-> env]
                  ELSE Exec(Tail(stmts), Bind(env, Head(stmts)[1], x.v), x.a))

\* the module globals of a user function
Globals(f) == [x \in f.aliases |-> ElemModule]

\* f(*args)
CallFunc(f, args, a) ==
    With(Exec(f.stmts, BindAll(Globals(f), f.params, args), a),
         LAMBDA b : IF IsErr(b.v) THEN Ret(b.a, b.v)
                    ELSE IF f.rkind = "expr" THEN Eval(f.outs[1], b.env, b.a)
                    ELSE With(EvalList(f.outs, b.env, b.a, <<>>),
                              LAMBDA l :
                                  IF f.rkind = "repeat" /\ ~IsErr(l.v)
                                  THEN Ret(l.a, [k |-> "list",
                                                 items |-> l.v.items
                                                               \o l.v.items])
                                  ELSE l))

(***************************************************************************)
(* Source text of a user function, as inspect.getsource returns it and     *)
(* with whitespace collapsed: a sequence of tokens                         *)
(***************************************************************************)
IsAtom(e) == e[1] \in {"var", "const", "call", "call2"}

RECURSIVE Unparse(_)
Unparse(e) ==
    LET Wrap(x) == IF IsAtom(x) THEN Unparse(x)
                   ELSE <<"(">> \o Unparse(x) \o <<")">>
    IN  CASE e[1] = "var" -> <<e[2]>>
          [] e[1] = "const" -> <<e[2]>>
          [] e[1] = "neg" -> <<"-">> \o Wrap(e[2])
          [] e[1] = "bin" -> Wrap(e[3]) \o <<e[2]>> \o Wrap(e[4])
          [] e[1] = "call" ->
                <<e[2], ".", e[3], "(">> \o Unparse(e[4]) \o <<")">>
          [] e[1] = "call2" ->
                <<e[2], ".", e[3], "(">> \o Unparse(e[4]) \o <<",">>
                    \o Unparse(e[5]) \o <<")">>

\* the token sequences of xs joined by commas
RECURSIVE JoinComma(_)
JoinComma(xs) ==
    IF xs = <<>> THEN <<>>
    ELSE IF Len(xs) = 1 THEN Head(xs)
    ELSE Head(xs) \o <<",">> \o JoinComma(Tail(xs))

RECURSIVE UnparseAll(_)
UnparseAll(es) ==
    IF es = <<>> THEN <<>> ELSE <<Unparse(Head(es))>> \o UnparseAll(Tail(es))

RECURSIVE UnparseStmts(_)
UnparseStmts(stmts) ==
    IF stmts = <<>> THEN <<>>
    ELSE <<Head(stmts)[1], "=">> \o Unparse(Head(stmts)[2])
             \o UnparseStmts(Tail(stmts))

ReturnText(f) ==
    CASE f.rkind = "expr" -> Unparse(f.outs[1])
      [] f.rkind = "list" -> <<"[">> \o JoinComma(UnparseAll(f.outs)) \o <<"]">>
      [] f.rkind = "tuple" -> JoinComma(UnparseAll(f.outs))
      [] f.rkind = "repeat" ->
             <<"[">> \o JoinComma(UnparseAll(f.outs)) \o <<"]", "*", "2">>

\* inspect.getsource(self.funcs), whitespace collapsed
Source(f) ==
    LET names == JoinComma([i \in 1..Len(f.params) |-> <<f.params[i]>>])
    IN  IF f.kind = "lambda"
        THEN <<"lambda">> \o names \o <<":">> \o ReturnText(f)
        ELSE <<"def", "f", "(">> \o names \o <<")", ":">>
                 \o UnparseStmts(f.stmts) \o <<"return">> \o ReturnText(f)

\* re.findall(r"(\:|return)\s*\[(.*)\]", funcs_str): the text between the
\* bracket that follows the leftmost ':' or 'return' and the last ']' of
\* the source; no match gives the empty result list
FindallBracket(toks) ==
    LET starts == {i \in 1..(Len(toks) - 1) :
                      toks[i] \in {":", "return"} /\ toks[i + 1] = "["
                      /\ \E j \in (i + 2)..Len(toks) : toks[j] = "]"}
    IN  IF starts = {} THEN <<>>
        ELSE LET i == CHOOSE x \in starts : \A y \in starts : x <= y
                 j == CHOOSE x \in (i + 2)..Len(toks) :
                          toks[x] = "]"
                          /\ \A y \in (x + 1)..Len(toks) : toks[y] # "]"
             IN  <<SubSeq(toks, i + 2, j - 1)>>

\* str.split(","): the pieces of the text between commas
RECURSIVE SplitComma(_, _)
SplitComma(toks, cur) ==
    IF toks = <<>> THEN <<cur>>
    ELSE IF Head(toks) = "," THEN <<cur>> \o SplitComma(Tail(toks), <<>>)
    ELSE SplitComma(Tail(toks), Append(cur, Head(toks)))

(***************************************************************************)
(* Call inputs and numpy arrays                                            *)
(***************************************************************************)
\* a bare scalar, or an ordered sequence of Python scalars
ScalarInput(x) == [k |-> "scalar", x |-> x, xs |-> <<>>]

ListInput(xs) == [k |-> "list", x |-> PyInt(0), xs |-> xs]

\* an element of np.asarray([x]): the numpy scalar of the same value
NpScalar(x) ==
    [x EXCEPT !.t = IF IsIntegral(x) THEN "int64" ELSE "float64"]

\* if isinstance(inputs, (int, float)): inputs = np.asarray([inputs])
AsSequence(inputs) ==
    IF inputs.k = "scalar" THEN <<NpScalar(inputs.x)>> ELSE inputs.xs

\* what a call hands back: the shape and the entries (row-major, values
\* without their scalar type) of a number or numpy array
Scalar(x) == [shape |-> <<>>, data |-> <<Val(x)>>]

\* np.asarray(xs) for a list of numbers
Vector(xs) == [shape |-> <<Len(xs)>>, data |-> [i \in 1..Len(xs) |-> Val(xs[i])]]

RECURSIVE Concat(_)
Concat(rows) == IF rows = <<>> THEN <<>> ELSE Head(rows) \o Concat(Tail(rows))

\* np.asarray(rows) for a list of equally long lists of numbers
Matrix(rows) ==
    [shape |-> <<Len(rows), IF rows = <<>> THEN 0 ELSE Len(rows[1])>>,
     data |-> Concat([i \in 1..Len(rows) |->
                         [j \in 1..Len(rows[i]) |-> Val(rows[i][j])]])]

\* the array handed back as assembled, one row per pass
Transpose_left_out(m) == m

\* m.T for a two-dimensional array
Transpose(m) ==
    LET r == m.shape[1]
        c == m.shape[2]
    IN  [shape |-> <<c, r>>,
         data |-> [p \in 1..(r * c) |->
                      m.data[((p - 1) % r) * c + ((p - 1) \div r) + 1]]]

\* m.flatten()
Flatten(m) == [shape |-> <<Len(m.data)>>, data |-> m.data]

NoResult == [shape |-> <<>>, data |-> <<>>]

(***************************************************************************)
(* class AutoDiff                                                          *)
(***************************************************************************)
\* self.n_inputs = self.funcs.__code__.co_argcount
co_argcount(f) == Len(f.params)

\* the Dual arrays a forward call handed to the function, one per
\* invocation, and the array as the last pass left it
Seeding(r) == [calls |-> r.seeds, after |-> r.duals]

\* a call that makes no Dual
NoSeeds == [calls |-> <<>>, after |-> <<>>]

\* the record of a finished call
Done(op, inputs, outcome, result, ncalls, a, seeds) ==
    [op |-> op, inputs |-> inputs, outcome |-> outcome, result |-> result,
     ncalls |-> ncalls, made |-> a.nduals + Len(a.nodes), seeds |-> seeds,
     nodes |-> a.nodes]

\* the outcome of a call that returned r: entries the exact arithmetic
\* cannot represent are marked
Returned(op, inputs, r, ncalls, a, seeds) ==
    Done(op, inputs,
         IF \E i \in 1..Len(r.data) : r.data[i] = Val(Err("Inexact"))
         THEN "Inexact" ELSE "ok",
         r, ncalls, a, seeds)

Raised(op, inputs, e, ncalls, a, seeds) ==
    Done(op, inputs, e.e, NoResult, ncalls, a, seeds)

(***************************************************************************)
(* class Forward                                                           *)
(***************************************************************************)
\* the passes of the multivariate loop without the line that sets the
\* seed back to 0 after the call
RECURSIVE ForwardPasses_no_reset(_, _, _, _, _, _)
ForwardPasses_no_reset(f, duals, idx, a, jacob, seeds) ==
    IF idx > Len(duals)
    THEN [a |-> a, v |-> [k |-> "list", items |-> jacob], seeds |-> seeds,
          duals |-> duals]
    ELSE With([duals EXCEPT ![idx] = Dual(duals[idx].real, PyInt(1))],
              LAMBDA d1 :
                  With(CallFunc(f, d1, [a EXCEPT !.nduals = @ + 1]),
                       LAMBDA r :
                           IF IsErr(r.v)
                           THEN [a |-> r.a, v |-> r.v,
                                 seeds |-> Append(seeds, d1), duals |-> d1]
                           ELSE ForwardPasses_no_reset(
                                    f, d1, idx + 1, r.a, Append(jacob, r.v),
                                    Append(seeds, d1))))

\* the passes of the multivariate loop from pass idx on: seed idx gets
\* derivative 1, the function is called, the seed is set back to 0
RECURSIVE ForwardPasses(_, _, _, _, _, _)
ForwardPasses(f, duals, idx, a, jacob, seeds) ==
    IF idx > Len(duals)
    THEN [a |-> a, v |-> [k |-> "list", items |-> jacob], seeds |-> seeds,
          duals |-> duals]
    ELSE With([duals EXCEPT ![idx] = Dual(duals[idx].real, PyInt(1))],
              LAMBDA d1 :
                  With(CallFunc(f, d1, [a EXCEPT !.nduals = @ + 1]),
                       LAMBDA r :
                           With(Append(seeds, d1),
                                LAMBDA s1 :
                                    IF IsErr(r.v)
                                    THEN [a |-> r.a, v |-> r.v, seeds |-> s1,
                                          duals |-> d1]
                                    ELSE ForwardPasses(
                                             f,
                                             [d1 EXCEPT ![idx] =
                                                 Dual(d1[idx].real, PyInt(0))],
                                             idx + 1,
                                             [r.a EXCEPT !.nduals = @ + 1],
                                             Append(jacob, r.v), s1))))

\* Forward._dual_forward with the inputs turned into Dual numbers before the
\* length of the inputs is compared with the number of parameters
dual_forward_seed_first(f, n, inputs) ==
    With(AsSequence(inputs),
         LAMBDA xs :
             IF Len(xs) # n
             THEN [a |-> [EmptyArena EXCEPT !.nduals = Len(xs)],
                   v |-> Err("Exception"), seeds |-> <<>>, duals |-> <<>>]
             ELSE IF Len(xs) = 1
                  THEN With([i \in 1..1 |-> Dual1(xs[i])],
                            LAMBDA duals :
                                With(CallFunc(f, duals,
                                              [EmptyArena EXCEPT !.nduals = 1]),
                                     LAMBDA r :
                                         [a |-> r.a, v |-> r.v,
                                          seeds |-> <<duals>>,
                                          duals |-> duals]))
             ELSE ForwardPasses(f, [i \in 1..Len(xs) |-> Dual(xs[i], PyInt(0))],
                                1, [EmptyArena EXCEPT !.nduals = Len(xs)],
                                <<>>, <<>>))

\* Forward._dual_forward
dual_forward(f, n, inputs) ==
    With(AsSequence(inputs),
         LAMBDA xs :
             IF Len(xs) # n
             THEN [a |-> EmptyArena,
                   v |-> Err("Exception"), seeds |-> <<>>, duals |-> <<>>]
             ELSE IF Len(xs) = 1
                  THEN With([i \in 1..1 |-> Dual1(xs[i])],
                            LAMBDA duals :
                                With(CallFunc(f, duals,
                                              [EmptyArena EXCEPT !.nduals = 1]),
                                     LAMBDA r :
                                         [a |-> r.a, v |-> r.v,
                                          seeds |-> <<duals>>,
                                          duals |-> duals]))
             ELSE ForwardPasses(f, [i \in 1..Len(xs) |-> Dual(xs[i], PyInt(0))],
                                1, [EmptyArena EXCEPT !.nduals = Len(xs)],
                                <<>>, <<>>))

\* elem.real / elem.dual of an output; a plain number has .real, no .dual
AttrReal(elem) ==
    IF IsDual(elem) THEN elem.real
    ELSE IF IsNum(elem) THEN elem
    ELSE Err("AttributeError")

AttrDual(elem) ==
    IF IsDual(elem) THEN elem.dual ELSE Err("AttributeError")

\* [attr(elem) for elem in result]: the list, or the first exception
Collect(result, Attr(_)) ==
    IF result.k # "list" THEN TypeError
    ELSE LET xs == [i \in 1..Len(result.items) |-> Attr(result.items[i])]
             bad == {i \in 1..Len(xs) : IsErr(xs[i]) /\ xs[i].e # "Inexact"}
         IN  IF bad # {}
             THEN xs[CHOOSE i \in bad : \A j \in bad : i <= j]
             ELSE [k |-> "list", items |-> xs]

\* [[attr(elem) for elem in sets] for sets in result]
Collect2(result, Attr(_)) ==
    LET rows == [i \in 1..Len(result.items) |-> Collect(result.items[i], Attr)]
        bad == {i \in 1..Len(rows) : IsErr(rows[i])}
    IN  IF bad # {} THEN rows[CHOOSE i \in bad : \A j \in bad : i <= j]
        ELSE [k |-> "rows",
              items |-> [i \in 1..Len(rows) |-> rows[i].items]]

\* Forward.get_value
Forward_get_value(f, n, inputs) ==
    With(dual_forward(f, n, inputs),
         LAMBDA r :
             IF IsErr(r.v)
             THEN Raised("get_value", inputs, r.v, Len(r.seeds), r.a, Seeding(r))
             ELSE IF Len(AsSequence(inputs)) = 1
                  THEN IF IsDual(r.v)
                       THEN Returned("get_value", inputs, Scalar(r.v.real),
                                     Len(r.seeds), r.a, Seeding(r))
                       ELSE With(Collect(r.v, AttrReal),
                                 LAMBDA c :
                                     IF IsErr(c)
                                     THEN Raised("get_value", inputs, c, Len(r.seeds), r.a, Seeding(r))
                                     ELSE Returned("get_value", inputs, Vector(c.items),
                                                   Len(r.seeds), r.a, Seeding(r)))
             ELSE IF IsDual(r.v.items[1])
                  THEN With(Collect(r.v, AttrReal),
                            LAMBDA c :
                                IF IsErr(c)
                                THEN Raised("get_value", inputs, c, Len(r.seeds), r.a, Seeding(r))
                                ELSE Returned("get_value", inputs, Scalar(c.items[1]),
                                              Len(r.seeds), r.a, Seeding(r)))
             ELSE With(Collect2(r.v, AttrReal),
                       LAMBDA c :
                           IF IsErr(c)
                           THEN Raised("get_value", inputs, c, Len(r.seeds), r.a, Seeding(r))
                           ELSE Returned("get_value", inputs, Vector(c.items[1]),
                                         Len(r.seeds), r.a, Seeding(r))))

\* the tail of Forward.forward: the derivatives of the outputs of the
\* passes, as a numpy array
ForwardResult(inputs, r) ==
    IF IsErr(r.v)
    THEN Raised("forward", inputs, r.v, Len(r.seeds), r.a, Seeding(r))
    ELSE IF Len(AsSequence(inputs)) = 1
         THEN IF IsDual(r.v)
              THEN Returned("forward", inputs, Scalar(r.v.dual),
                            Len(r.seeds), r.a, Seeding(r))
              ELSE With(Collect(r.v, AttrDual),
                        LAMBDA c :
                            IF IsErr(c)
                            THEN Raised("forward", inputs, c, Len(r.seeds), r.a, Seeding(r))
                            ELSE Returned("forward", inputs, Vector(c.items),
                                          Len(r.seeds), r.a, Seeding(r)))
    ELSE IF IsDual(r.v.items[1])
         THEN With(Collect(r.v, AttrDual),
                   LAMBDA c :
                       IF IsErr(c)
                       THEN Raised("forward", inputs, c, Len(r.seeds), r.a, Seeding(r))
                       ELSE Returned("forward", inputs, Vector(c.items),
                                     Len(r.seeds), r.a, Seeding(r)))
    ELSE With(Collect2(r.v, AttrDual),
              LAMBDA c :
                  IF IsErr(c)
                  THEN Raised("forward", inputs, c, Len(r.seeds), r.a, Seeding(r))
                  ELSE Returned("forward", inputs, Transpose(Matrix(c.items)),
                                Len(r.seeds), r.a, Seeding(r)))

\* Forward.forward
forward(f, n, inputs) ==
    With(dual_forward(f, n, inputs), LAMBDA r : ForwardResult(inputs, r))

(***************************************************************************)
(* class Reverse                                                           *)
(***************************************************************************)
\* the dictionary made with defaultdict(lambda: 1)
GradGet_one(gradiant, key) ==
    IF key \in DOMAIN gradiant THEN gradiant[key] ELSE PyInt(1)

\* gradiant[key] of the defaultdict(lambda: 0)
GradGet(gradiant, key) ==
    IF key \in DOMAIN gradiant THEN gradiant[key] ELSE PyInt(0)

\* gradiant[child] = chain_grad: the entry overwritten, nothing added
GradAdd_overwrite(gradiant, child, chain_grad) ==
    [x \in DOMAIN gradiant \cup {child} |->
        IF x = child THEN chain_grad ELSE gradiant[x]]

\* gradiant[child] += chain_grad
GradAdd(gradiant, child, chain_grad) ==
    [x \in DOMAIN gradiant \cup {child} |->
        IF x = child THEN NumAdd(GradGet(gradiant, child), chain_grad)
        ELSE gradiant[x]]

\* Reverse._gradiant._calc_grad, from edge j of root on
RECURSIVE calc_grad(_, _, _, _, _)
calc_grad(nodes, root, st, j, gradiant) ==
    IF j > Len(nodes[root].partial_derivs) THEN gradiant
    ELSE LET child == nodes[root].partial_derivs[j][1]
             partial_deriv == nodes[root].partial_derivs[j][2]
             chain_grad == NumMul(st, partial_deriv)
             g1 == GradAdd(gradiant, child, chain_grad)
             g2 == calc_grad(nodes, child, chain_grad, 1, g1)
         IN  calc_grad(nodes, root, st, j + 1, g2)

\* Reverse._gradiant with the dictionary kept on the object between calls:
\* it starts from what the previous call accumulated
gradiant_kept(nodes, root) ==
    calc_grad(nodes, root, PyInt(1), 1,
              IF last.nodes = <<>> THEN <<>>
              ELSE calc_grad(last.nodes, 1, PyInt(1), 1, <<>>))

\* Reverse._gradiant
gradiant(nodes, root) == calc_grad(nodes, root, PyInt(1), 1, <<>>)

\* the sum of the entries of every node the traversal from elem reached
RECURSIVE SumEntries(_, _)
SumEntries(gradiant_, keys) ==
    IF keys = {} THEN PyInt(0)
    ELSE With(CHOOSE x \in keys : TRUE,
              LAMBDA x : NumAdd(gradiant_[x],
                                SumEntries(gradiant_, keys \ {x})))

\* the derivative read as the total the traversal accumulated, whichever
\* node it accumulated it on
GradOf_total(nodes, elem, res) ==
    IF IsNode(res)
    THEN With(gradiant(nodes, elem.id),
              LAMBDA g : SumEntries(g, DOMAIN g))
    ELSE IF IsNum(res) THEN PyInt(0)
    ELSE TypeError

\* self._gradiant(elem)[res]: the keys are Node objects; a number is a key
\* no Node equals, a list is unhashable
GradOf(nodes, elem, res) ==
    IF IsNode(res) THEN GradGet(gradiant(nodes, elem.id), res.id)
    ELSE IF IsNum(res) THEN PyInt(0)
    ELSE TypeError

\* nodes = np.asarray([Node(input) for input in inputs])
RECURSIVE SeedNodes(_, _)
SeedNodes(xs, a) == IF xs = <<>> THEN a ELSE SeedNodes(Tail(xs), Node(a, Head(xs)))

\* Reverse.get_value
Reverse_get_value(f, n, inputs) ==
    IF Len(AsSequence(inputs)) # n
    THEN Raised("get_value", inputs, Err("Exception"), 0, EmptyArena, NoSeeds)
    ELSE With(CallFunc(f, [i \in 1..n |-> NodeRef(i)],
                       SeedNodes(AsSequence(inputs), EmptyArena)),
              LAMBDA r :
                  IF IsErr(r.v)
                  THEN Raised("get_value", inputs, r.v, 1, r.a, NoSeeds)
                  ELSE IF IsNode(r.v)
                       THEN Returned("get_value", inputs,
                                     Scalar(RealOf(r.a, r.v)), 1, r.a, NoSeeds)
                  ELSE With(Collect(r.v,
                                    LAMBDA elem :
                                        IF IsNode(elem) THEN RealOf(r.a, elem)
                                        ELSE AttrReal(elem)),
                            LAMBDA c :
                                IF IsErr(c)
                                THEN Raised("get_value", inputs, c, 1, r.a, NoSeeds)
                                ELSE Returned("get_value", inputs,
                                              Vector(c.items), 1, r.a, NoSeeds)))

(***************************************************************************)
(* The user functions offered to the engines                               *)
(***************************************************************************)
vx == V("x")

vy == V("y")

vz == V("z")

\* the functions of tests/test_FM.py and tests/test_RM.py
f1 == Fn("lambda", <<"x">>, <<>>, "expr", <<Bin("*", vx, KF("1.5", 3, 2))>>, {})

f2 == Fn("lambda", <<"x">>, <<>>, "list",
         <<Bin("*", vx, KF("1.5", 3, 2)), Bin("+", vx, K(7))>>, {})

f2_2 == Fn("lambda", <<"x">>, <<>>, "list",
           <<Bin("+", Call("f", "sqrt", vx), K(1)), Bin("**", vx, K(2))>>, {"f"})

f3 == Fn("lambda", <<"x", "y">>, <<>>, "expr",
         <<Bin("+", Bin("*", vx, KF("1.5", 3, 2)), Bin("*", vx, vy))>>, {})

f4 == Fn("lambda", <<"x", "y", "z">>, <<>>, "expr",
         <<Bin("+", Bin("+", Bin("*", vx, KF("1.5", 3, 2)), Bin("*", vx, vy)),
               Bin("*", vy, vz))>>, {})

f5 == Fn("lambda", <<"x", "y">>, <<>>, "list",
         <<Bin("+", Bin("*", vx, KF("1.5", 3, 2)), Bin("*", vx, vy)),
           Bin("**", vx, vy)>>, {})

f6 == Fn("lambda", <<"x", "y", "z">>, <<>>, "list",
         <<Bin("+", Bin("+", Bin("*", vx, KF("1.5", 3, 2)), Bin("*", vx, vy)),
               Bin("*", vy, vz)),
           Bin("*", vz, Bin("**", vx, vy))>>, {})

\* f = lambda x: x * 2, the function of the docstrings
f_double == Fn("lambda", <<"x">>, <<>>, "expr", <<Bin("*", vx, K(2))>>, {})

\* an output that is a parameter unchanged
f_id == Fn("lambda", <<"x">>, <<>>, "expr", <<vx>>, {})

f_idlist == Fn("lambda", <<"x", "y">>, <<>>, "list", <<vx, Bin("*", vx, vy)>>, {})

\* a parameter that no output uses
f_ignore == Fn("lambda", <<"x", "y">>, <<>>, "expr", <<Bin("*", vx, K(2))>>, {})

\* the remaining operators, in both operand arrangements
f_neg == Fn("lambda", <<"x">>, <<>>, "expr", <<Neg(vx)>>, {})

f_sq == Fn("lambda", <<"x">>, <<>>, "expr", <<Bin("*", vx, vx)>>, {})

f_inv == Fn("lambda", <<"x">>, <<>>, "expr", <<Bin("**", vx, K(-1))>>, {})

f_div == Fn("lambda", <<"x", "y">>, <<>>, "expr", <<Bin("/", vx, vy)>>, {})

f_sub == Fn("lambda", <<"x", "y">>, <<>>, "list",
            <<Bin("-", vx, vy), Bin("-", K(2), vx), Bin("/", vx, K(2))>>, {})

f_refl == Fn("lambda", <<"x">>, <<>>, "list",
             <<Bin("+", K(2), vx), Bin("*", K(2), vx), Bin("/", K(2), vx),
               Bin("**", K(2), vx)>>, {})

\* one output of two inputs, as a list
f_one == Fn("lambda", <<"x", "y">>, <<>>, "list", <<Bin("*", vx, vy)>>, {})

\* the elementary functions, one call each and one composition
f_elem(fn) == Fn("lambda", <<"x">>, <<>>, "expr", <<Call("f", fn, vx)>>, {"f"})

f_comp == Fn("lambda", <<"x", "y">>, <<>>, "list",
             <<Bin("*", Call("f", "exp", vx), Call("f", "log", vy)),
               Call("f", "sin", Bin("*", vx, vy))>>, {"f"})

f_logb == Fn("lambda", <<"x">>, <<>>, "expr", <<Call2("f", "logb", vx, K(2))>>,
             {"f"})

f_logb_list == Fn("lambda", <<"x">>, <<>>, "list",
                  <<Call2("f", "logb", vx, K(2)), Bin("*", vx, K(2))>>, {"f"})

\* bodies outside the shape the reverse engine asks for
f_local == Fn("def", <<"x", "y">>, <<<<"a", Bin("*", vx, vy)>>>>, "list",
              <<V("a"), vy>>, {})

f_rebind == Fn("def", <<"x", "y">>, <<<<"x", Bin("*", vx, vy)>>>>, "list",
               <<vx, vy>>, {})

f_tuple == Fn("def", <<"x", "y">>, <<>>, "tuple",
              <<Bin("*", vx, K(2)), Bin("*", vy, K(3))>>, {})

f_alias2 == Fn("lambda", <<"x">>, <<>>, "list",
               <<Call("f", "sin", vx), Call("ef", "cos", vx)>>, {"f", "ef"})

\* lambda x: [x * 2] * 2: the list of one expression, taken twice
f_twice == Fn("lambda", <<"x">>, <<>>, "repeat", <<Bin("*", vx, K(2))>>, {})

\* lambda x, y: [x * y, 2]: an output that uses no parameter
f_const == Fn("lambda", <<"x", "y">>, <<>>, "list",
              <<Bin("*", vx, vy), K(2)>>, {})

\* lambda nodes: [nodes * 2, nodes + 1]
f_nodes == Fn("lambda", <<"nodes">>, <<>>, "list",
              <<Bin("*", V("nodes"), K(2)), Bin("+", V("nodes"), K(1))>>, {})

ElemSeq ==
    <<"sin", "cos", "tan", "exp", "sqrt", "log", "arcsin", "arccos",
      "arctan", "sinh", "cosh", "tanh", "logistic">>

Catalog ==
    <<f1, f2, f2_2, f3, f4, f5, f6, f_double, f_id, f_idlist, f_ignore, f_neg,
      f_sq, f_inv, f_div, f_sub, f_refl, f_one, f_comp, f_logb, f_logb_list,
      f_local, f_rebind, f_tuple, f_alias2, f_nodes, f_twice,
      f_const>>
        \o [i \in 1..Len(ElemSeq) |-> f_elem(ElemSeq[i])]

\* the expressions that occur as an output or as a statement
AllExprs ==
    Concat([i \in 1..Len(Catalog) |->
               Catalog[i].outs
                   \o [j \in 1..Len(Catalog[i].stmts) |-> Catalog[i].stmts[j][2]]])

\* compile(text): the expression the text is the source of, or a
\* SyntaxError when the text is the source of none
ParseExpr(toks) ==
    With(AllExprs,
         LAMBDA es :
             IF \A i \in 1..Len(es) : Unparse(es[i]) # toks
             THEN Err("SyntaxError")
             ELSE [k |-> "code",
                   e |-> es[CHOOSE i \in 1..Len(es) : Unparse(es[i]) = toks]])

\* the nodes reachable from the nodes in S along edges
EdgesOf(nodes, S) ==
    UNION {{nodes[i].partial_derivs[j][1] :
               j \in 1..Len(nodes[i].partial_derivs)} : i \in S}

RECURSIVE Reach(_, _)
Reach(nodes, S) ==
    LET T == S \cup EdgesOf(nodes, S)
    IN  IF T = S THEN S ELSE Reach(nodes, T)

\* copy.deepcopy(nodes): every object reachable from the array is copied
\* once, the copies refer to each other as the originals do
DeepCopy(a, roots) ==
    LET R == Reach(a.nodes, {roots[i].id : i \in 1..Len(roots)})
        base == Len(a.nodes)
        new(i) == base + Cardinality({r \in R : r <= i})
        old(p) == CHOOSE i \in R : new(i) = base + p
        copy(i) ==
            [real |-> a.nodes[i].real,
             partial_derivs |->
                 [j \in 1..Len(a.nodes[i].partial_derivs) |->
                     <<new(a.nodes[i].partial_derivs[j][1]),
                       a.nodes[i].partial_derivs[j][2]>>]]
    IN  [a |-> [a EXCEPT !.nodes = @ \o [p \in 1..Cardinality(R) |-> copy(old(p))]],
         v |-> [i \in 1..Len(roots) |-> NodeRef(new(roots[i].id))]]

\* the names the evaluated text can see besides the ones reverse() binds:
\* the module globals of reverse.py that are modules
ReverseGlobals ==
    [m \in {"np", "elementary_function"} |->
        IF m = "np" THEN NumpyModule ELSE ElemModule]

\* re.findall(pattern, func_str) over all pieces: the names written in
\* front of ".<elementary function>"
PkgNames(funcs_lst) ==
    UNION {{funcs_lst[p][i] : i \in {i \in 1..(Len(funcs_lst[p]) - 2) :
                                        funcs_lst[p][i + 1] = "."
                                        /\ funcs_lst[p][i + 2] \in ElemNames}} :
           p \in 1..Len(funcs_lst)}

exclude_pkg == {"math", "numpy", "np"}

\* the traversals of one row sharing one dictionary: the traversal rooted
\* at input i goes on from what the traversals of the inputs before it left
RECURSIVE SharedDict(_, _, _)
SharedDict(nodes, input_node, i) ==
    IF i = 0 THEN <<>>
    ELSE calc_grad(nodes, input_node[i].id, PyInt(1), 1,
                   SharedDict(nodes, input_node, i - 1))

GradRow_shared(nodes, input_node, res) ==
    Collect([k |-> "list", items |-> [i \in 1..Len(input_node) |-> i]],
            LAMBDA i : IF IsNode(res)
                       THEN GradGet(SharedDict(nodes, input_node, i), res.id)
                       ELSE IF IsNum(res) THEN PyInt(0)
                       ELSE TypeError)

\* [self._gradiant(elem)[res] for elem in input_node]
GradRow(nodes, input_node, res) ==
    Collect([k |-> "list", items |-> input_node],
            LAMBDA elem : GradOf(nodes, elem, res))

\* the local variables of reverse() that a parameter of the catalogue is
\* named after
FastLocals == {"nodes"}

\* the namespace eval() reads: locals() copies the frame's own variables
\* over the entries vars()[var] = val has written under the same names
FastToLocals(bound, frame) ==
    [x \in DOMAIN bound |->
        IF x \in FastLocals \cap DOMAIN frame THEN frame[x] ELSE bound[x]]

\* the loop over zip(input_nodes, funcs_lst), from position j on
RECURSIVE ReversePasses(_, _, _, _, _, _, _)
ReversePasses(f, input_nodes, funcs_lst, env, a, jacob, j) ==
    IF j > Min(Len(input_nodes), Len(funcs_lst))
    THEN Ret(a, [k |-> "rows", items |-> jacob])
    ELSE With(FastToLocals(BindAll(env, f.params, input_nodes[j]), env),
              LAMBDA env1 :
                  With(ParseExpr(funcs_lst[j]),
                       LAMBDA code :
                           IF IsErr(code) THEN Ret(a, code)
                           ELSE With(Eval(code.e, env1, a),
                                     LAMBDA res :
                                         IF IsErr(res.v) THEN res
                                         ELSE With(GradRow(res.a.nodes,
                                                           input_nodes[j], res.v),
                                                   LAMBDA row :
                                                       IF IsErr(row)
                                                       THEN Ret(res.a, row)
                                                       ELSE ReversePasses(
                                                                f, input_nodes,
                                                                funcs_lst, env1,
                                                                res.a,
                                                                Append(jacob,
                                                                       row.items),
                                                                j + 1)))))

\* input_nodes = [copy.deepcopy(nodes) for _ in range(n_func)]
RECURSIVE CopyInputs(_, _, _, _)
CopyInputs(a, nodes, n_func, acc) ==
    IF n_func = 0 THEN Ret(a, acc)
    ELSE With(DeepCopy(a, nodes),
              LAMBDA c : CopyInputs(c.a, nodes, n_func - 1, Append(acc, c.v)))

\* the multiple-output branch of Reverse.reverse, inside its try
ReverseMulti(f, nodes, result, a) ==
    IF result.k # "list" THEN Ret(a, TypeError)
    ELSE With(CopyInputs(a, nodes, Len(result.items), <<>>),
              LAMBDA input_nodes :
                  With(FindallBracket(Source(f)),
                       LAMBDA found :
                           IF found = <<>>
                           THEN Ret(input_nodes.a, Err("IndexError"))
                           ELSE With(SplitComma(found[Len(found)], <<>>),
                                     LAMBDA funcs_lst :
                                         With(PkgNames(funcs_lst) \ exclude_pkg,
                                              LAMBDA pkg :
                                                  IF Cardinality(pkg) > 1
                                                  THEN Ret(input_nodes.a,
                                                           Err("NameError"))
                                                  ELSE ReversePasses(
                                                           f, input_nodes.v,
                                                           funcs_lst,
                                                           Bind(IF Cardinality(pkg) = 1
                                                                THEN Bind(
                                                                    ReverseGlobals,
                                                                    CHOOSE m \in pkg :
                                                                        TRUE,
                                                                    ElemModule)
                                                                ELSE ReverseGlobals,
                                                                "nodes",
                                                                ndarray(nodes)),
                                                           input_nodes.a, <<>>,
                                                           1)))))

\* Reverse.reverse
reverse(f, n, inputs) ==
    IF Len(AsSequence(inputs)) # n
    THEN Raised("reverse", inputs, Err("Exception"), 0, EmptyArena, NoSeeds)
    ELSE With([i \in 1..n |-> NodeRef(i)],
              LAMBDA nodes :
                  With(CallFunc(f, nodes,
                                SeedNodes(AsSequence(inputs), EmptyArena)),
                       LAMBDA r :
                           IF IsErr(r.v)
                           THEN Raised("reverse", inputs, r.v, 1, r.a, NoSeeds)
                           ELSE IF IsNode(r.v)
                                THEN Returned("reverse", inputs,
                                              IF n = 1
                                              THEN Scalar(GradOf(r.a.nodes,
                                                                 nodes[1], r.v))
                                              ELSE Vector(GradRow(r.a.nodes,
                                                                  nodes,
                                                                  r.v).items),
                                              1, r.a, NoSeeds)
                           ELSE With(ReverseMulti(f, nodes, r.v, r.a),
                                     LAMBDA m :
                                         IF IsErr(m.v)
                                         THEN Raised("reverse", inputs,
                                                     IF m.v.e = "Inexact"
                                                     THEN m.v
                                                     ELSE Err("ValueError"),
                                                     1, m.a, NoSeeds)
                                         ELSE Returned("reverse", inputs,
                                                       IF n = 1
                                                       THEN Flatten(
                                                                Matrix(m.v.items))
                                                       ELSE Matrix(m.v.items),
                                                       1, m.a, NoSeeds))))

(***************************************************************************)
(* One engine object and the calls made on it                              *)
(***************************************************************************)
Points == 0..MaxInput

\* the inputs offered to an engine of arity n: every bare scalar, every
\* sequence of length n, and one sequence of every other length
CallInputs(n) ==
    {ScalarInput(PyInt(v)) : v \in Points}
        \cup {ListInput(xs) : xs \in [1..n -> {PyInt(v) : v \in Points}]}
        \cup {ListInput([i \in 1..m |-> PyInt(1)]) :
                 m \in (0..MaxInputLen) \ {n}}

NoCall == Done("none", ListInput(<<>>), "none", NoResult, 0, EmptyArena, NoSeeds)

\* the first call on the object is not kept
Untracked == Done("off", ListInput(<<>>), "none", NoResult, 0, EmptyArena, NoSeeds)

\* no operator applied yet
NoOp ==
    [kind |-> "none", name |-> "none", refl |-> FALSE, self |-> Str,
     other |-> Str, v |-> Str, before |-> EmptyArena]

Init ==
    /\ engine = "none"
    /\ funcs = 0
    /\ n_inputs = 0
    /\ last = NoCall
    /\ first = Untracked
    /\ n_calls = 0
    /\ graph = EmptyArena
    /\ opres = NoOp

\* AutoDiff.__init__ through Forward(funcs) or Reverse(funcs)
Construct(cls, i) ==
    /\ engine = "none"
    /\ engine' = cls
    /\ funcs' = i
    /\ n_inputs' = co_argcount(Catalog[i])
    /\ UNCHANGED <<last, first, n_calls, graph, opres>>

\* a finished call becomes the last call; self.funcs and self.n_inputs are
\* not assigned by any call
Record(c) ==
    /\ n_calls < MaxCalls
    /\ n_calls' = n_calls + 1
    /\ last' = c
    /\ first' = IF first.op = "none" THEN c ELSE first
    /\ UNCHANGED <<engine, funcs, n_inputs, graph, opres>>

ForwardGetValue(inputs) ==
    /\ engine = "Forward"
    /\ Record(Forward_get_value(Catalog[funcs], n_inputs, inputs))

ForwardForward(inputs) ==
    /\ engine = "Forward"
    /\ Record(forward(Catalog[funcs], n_inputs, inputs))

ReverseGetValue(inputs) ==
    /\ engine = "Reverse"
    /\ Record(Reverse_get_value(Catalog[funcs], n_inputs, inputs))

ReverseReverse(inputs) ==
    /\ engine = "Reverse"
    /\ Record(reverse(Catalog[funcs], n_inputs, inputs))

Calls ==
    \/ \E inputs \in CallInputs(n_inputs) : ForwardGetValue(inputs)
    \/ \E inputs \in CallInputs(n_inputs) : ForwardForward(inputs)
    \/ \E inputs \in CallInputs(n_inputs) : ReverseGetValue(inputs)
    \/ \E inputs \in CallInputs(n_inputs) : ReverseReverse(inputs)

Next ==
    \/ \E cls \in {"Forward", "Reverse"}, i \in 1..Len(Catalog) : Construct(cls, i)
    \/ Calls

Spec == Init /\ [][Next]_vars

\* a client that constructs an engine and, when it is a Reverse engine,
\* goes on to ask it for derivatives
SpecFair ==
    /\ Spec
    /\ WF_vars(\E cls \in {"Forward", "Reverse"}, i \in 1..Len(Catalog) :
                   Construct(cls, i))
    /\ WF_vars(\E inputs \in CallInputs(n_inputs) : ReverseReverse(inputs))

(***************************************************************************)
(* The passes of one call run as concurrent units                          *)
(***************************************************************************)
\* every unit works on the one array of the sequential loop
SeedSet_one(u) == 1

\* the seed array unit u of a forward call works on: its own
SeedSet(u) == u

\* a list of n numbers for every point of the grid
ParInputs(n) == {ListInput(xs) : xs \in [1..n -> {PyInt(v) : v \in Points}]}

\* the first error among the rows, in row order, or the rows
RECURSIVE FirstErr(_, _)
FirstErr(rows, i) ==
    IF i > Len(rows) THEN [k |-> "list", items |-> rows]
    ELSE IF IsErr(rows[i]) THEN rows[i]
    ELSE FirstErr(rows, i + 1)

\* the units of a parallel call and what each has done so far
Par == opres.kind = "par"

\* a unit takes a step while another unit is between its first and its
\* last step
Overlaps(u) ==
    \E w \in DOMAIN opres.units :
        w # u /\ opres.units[w].pc \notin {opres.start, "done"}

\* the multivariate branch of Forward._dual_forward: one array of Duals
\* with derivative 0 for every sweep, one sweep per input
ParStartForward(i, inputs) ==
    /\ engine = "none"
    /\ co_argcount(Catalog[i]) >= 2
    /\ inputs \in ParInputs(co_argcount(Catalog[i]))
    /\ engine' = "Forward"
    /\ funcs' = i
    /\ n_inputs' = co_argcount(Catalog[i])
    /\ opres' = [kind |-> "par", mode |-> "forward", start |-> "seed",
                 inputs |-> inputs, overlap |-> FALSE, merged |-> FALSE,
                 seeds |-> [u \in 1..Len(inputs.xs) |->
                               [p \in 1..Len(inputs.xs) |->
                                   Dual(inputs.xs[p], PyInt(0))]],
                 units |-> [u \in 1..Len(inputs.xs) |->
                               [pc |-> "seed", row |-> Str]]]
    /\ UNCHANGED <<last, first, n_calls, graph>>

\* duals[idx] = Dual(duals[idx].real, 1)
ParSeed(u) ==
    /\ Par /\ opres.mode = "forward"
    /\ u \in DOMAIN opres.units
    /\ opres.units[u].pc = "seed"
    /\ opres' = [opres EXCEPT
                    !.seeds[SeedSet(u)][u] = Dual(@.real, PyInt(1)),
                    !.units[u].pc = "call",
                    !.overlap = @ \/ Overlaps(u)]
    /\ UNCHANGED <<engine, funcs, n_inputs, last, first, n_calls, graph>>

\* self.funcs(*duals)
ParCall(u) ==
    /\ Par /\ opres.mode = "forward"
    /\ u \in DOMAIN opres.units
    /\ opres.units[u].pc = "call"
    /\ opres' = [opres EXCEPT
                    !.units[u].row = CallFunc(Catalog[funcs],
                                              opres.seeds[SeedSet(u)],
                                              EmptyArena).v,
                    !.units[u].pc = "reset",
                    !.overlap = @ \/ Overlaps(u)]
    /\ UNCHANGED <<engine, funcs, n_inputs, last, first, n_calls, graph>>

\* duals[idx] = Dual(duals[idx].real, 0)
ParReset(u) ==
    /\ Par /\ opres.mode = "forward"
    /\ u \in DOMAIN opres.units
    /\ opres.units[u].pc = "reset"
    /\ opres' = [opres EXCEPT
                    !.seeds[SeedSet(u)][u] = Dual(@.real, PyInt(0)),
                    !.units[u].pc = "done",
                    !.overlap = @ \/ Overlaps(u)]
    /\ UNCHANGED <<engine, funcs, n_inputs, last, first, n_calls, graph>>

\* Reverse.reverse up to its loop over the outputs: the evaluation on
\* nodes, a copy of the input nodes per output, the text of every output
\* and the names the texts are evaluated with
ReversePrep(f, nodes, result, a) ==
    IF IsErr(result) \/ IsNode(result) \/ result.k # "list"
    THEN Ret(a, TypeError)
    ELSE With(CopyInputs(a, nodes, Len(result.items), <<>>),
              LAMBDA input_nodes :
                  With(FindallBracket(Source(f)),
                       LAMBDA found :
                           IF found = <<>>
                           THEN Ret(input_nodes.a, Err("IndexError"))
                           ELSE With(PkgNames(SplitComma(found[Len(found)],
                                                         <<>>)) \ exclude_pkg,
                                     LAMBDA pkg :
                                         IF Cardinality(pkg) > 1
                                         THEN Ret(input_nodes.a,
                                                  Err("NameError"))
                                         ELSE Ret(input_nodes.a,
                                                  [k |-> "prep",
                                                   copies |-> input_nodes.v,
                                                   texts |-> SplitComma(
                                                       found[Len(found)], <<>>),
                                                   env |-> Bind(
                                                       IF Cardinality(pkg) = 1
                                                       THEN Bind(
                                                           ReverseGlobals,
                                                           CHOOSE m \in pkg :
                                                               TRUE,
                                                           ElemModule)
                                                       ELSE ReverseGlobals,
                                                       "nodes",
                                                       ndarray(nodes))]))))

\* one unit per pair of zip(input_nodes, funcs_lst), each with the arena
\* and the names the evaluation left
ParUnits(inputs, prep) ==
    /\ ~IsErr(prep.v)
    /\ Min(Len(prep.v.copies), Len(prep.v.texts)) >= 2
    /\ opres' = [kind |-> "par", mode |-> "reverse", start |-> "bind",
                 inputs |-> inputs, overlap |-> FALSE, merged |-> FALSE,
                 copies |-> prep.v.copies, texts |-> prep.v.texts,
                 units |-> [j \in 1..Min(Len(prep.v.copies),
                                         Len(prep.v.texts)) |->
                               [pc |-> "bind", arena |-> prep.a,
                                env |-> prep.v.env, res |-> Str,
                                row |-> Str]]]

\* the passes of Reverse.reverse over the outputs, one unit per pair of
\* zip(input_nodes, funcs_lst), each on its own arena and its own names
ParStartReverse(i, inputs) ==
    /\ engine = "none"
    /\ inputs \in ParInputs(co_argcount(Catalog[i]))
    /\ With([p \in 1..co_argcount(Catalog[i]) |-> NodeRef(p)],
            LAMBDA nodes :
                With(CallFunc(Catalog[i], nodes,
                              SeedNodes(inputs.xs, EmptyArena)),
                     LAMBDA r :
                         With(ReversePrep(Catalog[i], nodes, r.v, r.a),
                              LAMBDA prep : ParUnits(inputs, prep))))
    /\ engine' = "Reverse"
    /\ funcs' = i
    /\ n_inputs' = co_argcount(Catalog[i])
    /\ UNCHANGED <<last, first, n_calls, graph>>

\* for idx, var in enumerate(var_names): vars()[var] = input_node[idx]
ParBind(j) ==
    /\ Par /\ opres.mode = "reverse"
    /\ j \in DOMAIN opres.units
    /\ opres.units[j].pc = "bind"
    /\ opres' = [opres EXCEPT
                    !.units[j].env = FastToLocals(
                        BindAll(@, Catalog[funcs].params, opres.copies[j]), @),
                    !.units[j].pc = "eval",
                    !.overlap = @ \/ Overlaps(j)]
    /\ UNCHANGED <<engine, funcs, n_inputs, last, first, n_calls, graph>>

\* res = eval(func)
ParEval(j) ==
    /\ Par /\ opres.mode = "reverse"
    /\ j \in DOMAIN opres.units
    /\ opres.units[j].pc = "eval"
    /\ With(With(ParseExpr(opres.texts[j]),
                 LAMBDA code :
                     IF IsErr(code) THEN Ret(opres.units[j].arena, code)
                     ELSE Eval(code.e, opres.units[j].env,
                               opres.units[j].arena)),
            LAMBDA res :
                opres' = [opres EXCEPT
                             !.units[j].arena = res.a,
                             !.units[j].res = res.v,
                             !.units[j].row = IF IsErr(res.v) THEN res.v
                                              ELSE Str,
                             !.units[j].pc = IF IsErr(res.v) THEN "done"
                                             ELSE "grad",
                             !.overlap = @ \/ Overlaps(j)])
    /\ UNCHANGED <<engine, funcs, n_inputs, last, first, n_calls, graph>>

\* grad = self._gradiant(res); jacob.append([grad[i] for i in input_node])
ParGrad(j) ==
    /\ Par /\ opres.mode = "reverse"
    /\ j \in DOMAIN opres.units
    /\ opres.units[j].pc = "grad"
    /\ opres' = [opres EXCEPT
                    !.units[j].row = GradRow(opres.units[j].arena.nodes,
                                             opres.copies[j],
                                             opres.units[j].res),
                    !.units[j].pc = "done",
                    !.overlap = @ \/ Overlaps(j)]
    /\ UNCHANGED <<engine, funcs, n_inputs, last, first, n_calls, graph>>

\* the rows of the units put together in unit order once every unit is
\* done, and handed back as the sequential call hands its rows back
MergedCall(rows) ==
    IF opres.mode = "forward"
    THEN ForwardResult(opres.inputs,
                       [a |-> EmptyArena, v |-> rows, seeds |-> <<>>,
                        duals |-> <<>>])
    ELSE IF IsErr(rows)
    THEN Raised("reverse", opres.inputs,
                IF rows.e = "Inexact" THEN rows ELSE Err("ValueError"),
                1, EmptyArena, NoSeeds)
    ELSE Returned("reverse", opres.inputs,
                  IF n_inputs = 1
                  THEN Flatten(Matrix([u \in DOMAIN rows.items |->
                                          rows.items[u].items]))
                  ELSE Matrix([u \in DOMAIN rows.items |->
                                  rows.items[u].items]),
                  1, EmptyArena, NoSeeds)

ParMerge ==
    /\ Par /\ ~opres.merged
    /\ \A u \in DOMAIN opres.units : opres.units[u].pc = "done"
    /\ last' = With(FirstErr([u \in DOMAIN opres.units |->
                                 opres.units[u].row], 1),
                    LAMBDA rows : MergedCall(rows))
    /\ opres' = [opres EXCEPT !.merged = TRUE]
    /\ UNCHANGED <<engine, funcs, n_inputs, first, n_calls, graph>>

NextParallel ==
    \/ \E i \in 1..Len(Catalog) :
           \E inputs \in ParInputs(co_argcount(Catalog[i])) :
               ParStartForward(i, inputs)
    \/ \E i \in 1..Len(Catalog) :
           \E inputs \in ParInputs(co_argcount(Catalog[i])) :
               ParStartReverse(i, inputs)
    \/ \E u \in 1..MaxInputLen : ParSeed(u)
    \/ \E u \in 1..MaxInputLen : ParCall(u)
    \/ \E u \in 1..MaxInputLen : ParReset(u)
    \/ \E j \in 1..MaxInputLen : ParBind(j)
    \/ \E j \in 1..MaxInputLen : ParEval(j)
    \/ \E j \in 1..MaxInputLen : ParGrad(j)
    \/ ParMerge

SpecParallel == Init /\ [][NextParallel]_vars

\* sequences of calls on one object, the first call kept for comparison
RepeatFuncs == {i \in 1..Len(Catalog) : i <= MaxRepeatFunc}

InitRepeat ==
    /\ engine = "none"
    /\ funcs = 0
    /\ n_inputs = 0
    /\ last = NoCall
    /\ first = NoCall
    /\ n_calls = 0
    /\ graph = EmptyArena
    /\ opres = NoOp

NextRepeat ==
    \/ \E cls \in {"Forward", "Reverse"}, i \in RepeatFuncs : Construct(cls, i)
    \/ Calls

SpecRepeat == InitRepeat /\ [][NextRepeat]_vars

(***************************************************************************)
(* Operators and elementary functions applied one at a time to Dual        *)
(* objects and to the Node objects of one graph                            *)
(***************************************************************************)
OpPoints == 1..MaxReal

OpScalars == {PyInt(v) : v \in OpPoints} \cup {PyFloat(1, 2)}

\* the Duals operators are applied to: values below, at and above zero
OpDuals == {Dual(PyInt(v), PyInt(d)) : v \in -1..MaxReal, d \in 0..1}

\* the scalars a Dual meets besides OpScalars
NonPositive == {PyInt(0), PyInt(-1)}

\* operands that are no int, no float, no Dual and no Node
Outsiders == {Str, NpScalar(PyInt(1))}

NodesOf(g) == {NodeRef(i) : i \in 1..Len(g.nodes)}

Operands(g) == OpScalars \cup OpDuals \cup NodesOf(g) \cup Outsiders

\* the operands a Dual meets
DualOperands(g) == Operands(g) \cup NonPositive

\* the operands a Node meets: a scalar, a Node, a Dual, a string
NodeOperands(g) ==
    OpScalars \cup NodesOf(g) \cup {Dual1(PyInt(1))} \cup Outsiders

Applied(kind, name, refl, self, other, v) ==
    [kind |-> kind, name |-> name, refl |-> refl, self |-> self,
     other |-> other, v |-> v, before |-> graph]

\* a call that neither reads nor changes the graph (a Dual operator, an
\* elementary function of a Dual or a scalar) is the only call of its run
PureCall == n_calls = 0

\* a call on a Node follows calls on Nodes
GraphCall == opres.kind = "none" \/ IsNode(opres.self)

\* one more operator call; the engine object is not involved
OpStep ==
    /\ n_calls < MaxOps
    /\ n_calls' = n_calls + 1
    /\ UNCHANGED <<engine, funcs, n_inputs, last, first>>


\* the graphs the operators are applied to: no Node yet, x = Node(v) alone,
\* x with its child x * x, and z = Node(0) alone
SeedGraph == Node(EmptyArena, PyInt(MaxReal))

InitGraphs ==
    {EmptyArena, SeedGraph, Node_mul(SeedGraph, NodeRef(1), NodeRef(1)).a,
     Node(EmptyArena, PyInt(0))}

InitOps ==
    /\ engine = "none"
    /\ funcs = 0
    /\ n_inputs = 0
    /\ last = NoCall
    /\ first = Untracked
    /\ n_calls = 0
    /\ graph \in InitGraphs
    /\ opres = NoOp

CompareNames == {"==", "!=", ">", "<", "<=", ">="}

DualCmp(name, self, other) ==
    CASE name = "==" -> Dual_eq(self, other)
      [] name = "!=" -> Dual_ne(self, other)
      [] name = ">" -> Dual_gt(self, other)
      [] name = "<" -> Dual_lt(self, other)
      [] name = "<=" -> Dual_le(self, other)
      [] name = ">=" -> Dual_ge(self, other)

\* self <cmp> other for a Dual self
DualCompare(name, self, other) ==
    /\ PureCall
    /\ OpStep
    /\ opres' = Applied("Dual", name, FALSE, self, other,
                        DualCmp(name, self, other))
    /\ UNCHANGED graph

BinNames == {"+", "-", "*", "/", "**"}

\* self <op> other, or other <op> self through the reflected method
DualArith(op, refl, self, other) ==
    LET r == DualRet(graph, IF refl THEN DualROp(op, self, other)
                            ELSE DualOp(op, self, other))
    IN  /\ PureCall
        /\ OpStep
        /\ graph' = r.a
        /\ opres' = Applied("Dual", op, refl, self, other, r.v)

\* -self
DualNegate(self) ==
    LET r == DualRet(graph, Dual_neg(self))
    IN  /\ PureCall
        /\ OpStep
        /\ graph' = r.a
        /\ opres' = Applied("Dual", "neg", FALSE, self, self, r.v)

NodeArith(op, refl, self, other) ==
    LET r == IF refl THEN NodeROp(op, graph, self, other)
             ELSE NodeBinOp(op, graph, self, other)
    IN  /\ GraphCall
        /\ OpStep
        /\ graph' = r.a
        /\ opres' = Applied("Node", op, refl, self, other, r.v)

NodeNegate(self) ==
    LET r == Node_neg(graph, self)
    IN  /\ GraphCall
        /\ OpStep
        /\ graph' = r.a
        /\ opres' = Applied("Node", "neg", FALSE, self, self, r.v)

\* elementary_function.<fn>(z)
Elementary(fn, z) ==
    LET r == ElemRet(ElemCall(fn, graph, z))
    IN  /\ IF IsNode(z) THEN GraphCall ELSE PureCall
        /\ OpStep
        /\ graph' = r.a
        /\ opres' = Applied("elem", fn, FALSE, z, z, r.v)

\* elementary_function.logb(z, base)
ElementaryLogb(z, base) ==
    LET r == ElemRet(logb(graph, z, base))
    IN  /\ IF IsNode(z) THEN GraphCall ELSE PureCall
        /\ OpStep
        /\ graph' = r.a
        /\ opres' = Applied("elem", "logb", FALSE, z, base, r.v)

NextOps ==
    \/ \E name \in CompareNames, self \in OpDuals, other \in Operands(graph) :
          DualCompare(name, self, other)
    \/ \E op \in BinNames, refl \in BOOLEAN, self \in OpDuals,
          other \in DualOperands(graph) : DualArith(op, refl, self, other)
    \/ \E self \in OpDuals : DualNegate(self)
    \/ \E op \in BinNames, refl \in BOOLEAN, self \in NodesOf(graph),
          other \in NodeOperands(graph) : NodeArith(op, refl, self, other)
    \/ \E self \in NodesOf(graph) : NodeNegate(self)
    \/ \E fn \in ElemNames \ {"logb"}, z \in DualOperands(graph) :
          Elementary(fn, z)
    \/ \E z \in DualOperands(graph), base \in {PyInt(2), Str} :
          ElementaryLogb(z, base)

SpecOps == InitOps /\ [][NextOps]_vars

(***************************************************************************)
(* Graphs grown by several Node operations in a row, and Reverse._gradiant *)
(* run over them one edge visit at a time.  While a traversal runs, opres  *)
(* holds its position: the stack of the _calc_grad activations (node, the  *)
(* index of the next edge, the weight st) and the dictionary so far.       *)
(***************************************************************************)
\* the seeded graphs: one input node, or two
GraphSeeds ==
    {SeedNodes(<<PyInt(v)>>, EmptyArena) : v \in OpPoints}
        \cup {SeedNodes(<<PyInt(1), PyInt(MaxReal)>>, EmptyArena)}

InitGraph ==
    /\ engine = "none"
    /\ funcs = 0
    /\ n_inputs = 0
    /\ last = NoCall
    /\ first = Untracked
    /\ n_calls = 0
    /\ graph \in GraphSeeds
    /\ opres = NoOp

\* a _gradiant call is running
Traversing == opres.kind = "grad" /\ opres.name = "run"

\* one more operation on the graph, between traversals
GraphStep ==
    /\ ~Traversing
    /\ n_calls < MaxGraphOps
    /\ n_calls' = n_calls + 1
    /\ UNCHANGED <<engine, funcs, n_inputs, last, first>>

\* the operations a graph is grown with: sums and products of two nodes,
\* negations and square roots
GraphOps == {"+", "*"}

GraphElemNames == {"sqrt"}

\* self <op> other for a Node self
GraphArith(op, self, other) ==
    /\ GraphStep
    /\ With(NodeBinOp(op, graph, self, other),
            LAMBDA r :
                /\ graph' = r.a
                /\ opres' = Applied("Node", op, FALSE, self, other, r.v))

\* -self
GraphNegate(self) ==
    /\ GraphStep
    /\ With(Node_neg(graph, self),
            LAMBDA r :
                /\ graph' = r.a
                /\ opres' = Applied("Node", "neg", FALSE, self, self, r.v))

\* elementary_function.<fn>(z) for a Node z
GraphElementary(fn, z) ==
    /\ GraphStep
    /\ With(ElemCall(fn, graph, z),
            LAMBDA r :
                /\ graph' = r.a
                /\ opres' = Applied("elem", fn, FALSE, z, z, r.v))

\* gradiant = defaultdict(lambda: 0)
defaultdict == <<>>

\* the dictionary of the previous call, were it kept
defaultdict_kept == IF opres.kind = "grad" THEN opres.gradiant ELSE <<>>

\* one activation of _calc_grad(root, st), about to look at edge j
Activation(root, st, j) == [root |-> root, st |-> st, j |-> j]

Traversal(name, root, stack, gradiant_, visits) ==
    [kind |-> "grad", name |-> name, root |-> root, stack |-> stack,
     gradiant |-> gradiant_, visits |-> visits, before |-> graph]

\* self._gradiant(root) is entered: the dictionary is created and
\* _calc_grad(root) is called with st = 1
GradStart(root) ==
    /\ ~Traversing
    /\ opres' = Traversal("run", root, <<Activation(root, PyInt(1), 1)>>,
                          defaultdict, 0)
    /\ UNCHANGED <<engine, funcs, n_inputs, last, first, n_calls, graph>>

\* one pass of the for loop of the innermost activation: the chained
\* derivative is added to the child's entry and _calc_grad is called on
\* the child
GradVisit ==
    /\ Traversing
    /\ opres.stack # <<>>
    /\ opres.visits < MaxVisits
    /\ LET top == opres.stack[Len(opres.stack)]
           edges == graph.nodes[top.root].partial_derivs
       IN  /\ top.j <= Len(edges)
           /\ LET child == edges[top.j][1]
                  partial_deriv == edges[top.j][2]
                  chain_grad == NumMul(top.st, partial_deriv)
              IN  opres' =
                      Traversal("run", opres.root,
                                Append([opres.stack EXCEPT
                                           ![Len(opres.stack)].j = @ + 1],
                                       Activation(child, chain_grad, 1)),
                                GradAdd(opres.gradiant, child, chain_grad),
                                opres.visits + 1)
    /\ UNCHANGED <<engine, funcs, n_inputs, last, first, n_calls, graph>>

\* the for loop of the innermost activation is exhausted: it returns
GradUnwind ==
    /\ Traversing
    /\ opres.stack # <<>>
    /\ LET top == opres.stack[Len(opres.stack)]
       IN  top.j > Len(graph.nodes[top.root].partial_derivs)
    /\ opres' = Traversal("run", opres.root,
                          SubSeq(opres.stack, 1, Len(opres.stack) - 1),
                          opres.gradiant, opres.visits)
    /\ UNCHANGED <<engine, funcs, n_inputs, last, first, n_calls, graph>>

\* return gradiant
GradReturn ==
    /\ Traversing
    /\ opres.stack = <<>>
    /\ opres' = Traversal("done", opres.root, <<>>, opres.gradiant,
                          opres.visits)
    /\ UNCHANGED <<engine, funcs, n_inputs, last, first, n_calls, graph>>

NextGraph ==
    \/ \E op \in GraphOps, self \in NodesOf(graph), other \in NodesOf(graph) :
          GraphArith(op, self, other)
    \/ \E self \in NodesOf(graph) : GraphNegate(self)
    \/ \E fn \in GraphElemNames, z \in NodesOf(graph) : GraphElementary(fn, z)
    \/ \E root \in 1..Len(graph.nodes) : GradStart(root)
    \/ GradVisit
    \/ GradUnwind
    \/ GradReturn

SpecGraph == InitGraph /\ [][NextGraph]_vars

\* a running call keeps running: the program is one thread
SpecGraphFair ==
    SpecGraph /\ WF_vars(GradVisit) /\ WF_vars(GradUnwind) /\ WF_vars(GradReturn)

(***************************************************************************)
(* Reference notions used by the properties                                *)
(***************************************************************************)
F == Catalog[funcs]

IsCall(c) == c.op \in {"get_value", "forward", "reverse"}

\* the number of inputs of a call, a bare scalar counting as one
InputLen(inputs) == IF inputs.k = "scalar" THEN 1 ELSE Len(inputs.xs)

\* the call returned and every entry is an exactly known finite number
Defined(c) ==
    /\ c.outcome = "ok"
    /\ \A i \in 1..Len(c.result.data) :
          Len(c.result.data[i]) = 3 /\ c.result.data[i][2] # 0

\* the function is written as the contract asks: its body is one return of
\* one expression or of one bracketed list, library calls under at most one
\* alias
InContract(f) ==
    /\ f.stmts = <<>>
    /\ f.rkind \in {"expr", "list"}
    /\ Cardinality(f.aliases) <= 1

\* the Python scalars of a call's inputs, as floats
RawInputs(inputs) ==
    IF inputs.k = "scalar" THEN <<inputs.x>> ELSE inputs.xs

RawEnv(f, inputs) == BindAll(Globals(f), f.params, RawInputs(inputs))

\* the value of an expression on raw scalars
RawValue(e, env) == Eval(e, env, EmptyArena).v

IsZero(q) == IsNum(q) /\ q.n = 0 /\ q.d # 0

One == PyFloat(1, 1)

\* the closed-form derivative of an elementary function at q
ElemDeriv(fn, q) ==
    CASE fn = "sin" -> np_ufunc("cos", q)
      [] fn = "cos" -> NumNeg(np_ufunc("sin", q))
      [] fn = "tan" -> NumDiv(One, NumPow(np_ufunc("cos", q), PyInt(2)))
      [] fn = "exp" -> np_ufunc("exp", q)
      [] fn = "sqrt" -> NumDiv(One, NumMul(PyInt(2), np_sqrt(q)))
      [] fn = "log" -> NumDiv(One, q)
      [] fn = "arcsin" ->
            NumDiv(One, np_sqrt(NumSub(One, NumPow(q, PyInt(2)))))
      [] fn = "arccos" ->
            NumNeg(NumDiv(One, np_sqrt(NumSub(One, NumPow(q, PyInt(2))))))
      [] fn = "arctan" -> NumDiv(One, NumAdd(One, NumPow(q, PyInt(2))))
      [] fn = "sinh" -> np_ufunc("cosh", q)
      [] fn = "cosh" -> np_ufunc("sinh", q)
      [] fn = "tanh" -> NumSub(One, NumPow(np_ufunc("tanh", q), PyInt(2)))
      [] fn = "logistic" ->
            NumMul(logistic_f(q), NumSub(One, logistic_f(q)))

\* the partial derivative of expression e with respect to parameter p at
\* the point env, by the rules of calculus
RECURSIVE Partial(_, _, _)
Partial(e, p, env) ==
    CASE e[1] = "var" -> IF e[2] = p THEN One ELSE PyFloat(0, 1)
      [] e[1] = "const" -> PyFloat(0, 1)
      [] e[1] = "neg" -> NumNeg(Partial(e[2], p, env))
      [] e[1] = "bin" ->
            LET l == RawValue(e[3], env)
                r == RawValue(e[4], env)
                dl == Partial(e[3], p, env)
                dr == Partial(e[4], p, env)
            IN  (CASE e[2] = "+" -> NumAdd(dl, dr)
                  [] e[2] = "-" -> NumSub(dl, dr)
                  [] e[2] = "*" -> NumAdd(NumMul(dl, r), NumMul(l, dr))
                  [] e[2] = "/" ->
                        NumDiv(NumSub(NumMul(dl, r), NumMul(l, dr)),
                               NumMul(r, r))
                  [] e[2] = "**" ->
                        IF IsZero(dr)
                        THEN IF IsZero(dl) THEN PyFloat(0, 1)
                             ELSE NumMul(NumMul(r, NumPow(l, NumSub(r, One))), dl)
                        ELSE NumMul(NumPow(l, r),
                                    NumAdd(NumMul(dr, np_log(l)),
                                           NumDiv(NumMul(r, dl), l))))
      [] e[1] = "call" ->
            NumMul(ElemDeriv(e[3], RawValue(e[4], env)), Partial(e[4], p, env))
      [] e[1] = "call2" ->
            NumMul(NumDiv(One, NumMul(RawValue(e[4], env), np_log(e[5][3]))),
                   Partial(e[4], p, env))

\* entry [j][i] of a two-dimensional result
Entry(r, j, i) == r.data[(j - 1) * r.shape[2] + i]

\* the inputs of the last call have as many entries as the function has
\* parameters
Matching == InputLen(last.inputs) = n_inputs

\* the user function evaluates on Node inputs without raising
Evaluates(f, inputs) ==
    LET xs == AsSequence(inputs)
    IN  ~IsErr(CallFunc(f, [i \in 1..Len(xs) |-> NodeRef(i)],
                        SeedNodes(xs, EmptyArena)).v)

\* every partial derivative of every output is an exactly known finite number
PartialsDefined(f, inputs) ==
    \A j \in 1..Len(Outs(f)), i \in 1..Len(f.params) :
        LET q == Partial(Outs(f)[j], f.params[i], RawEnv(f, inputs))
        IN  IsNum(q) /\ q.d # 0

\* every output is an exactly known finite number on raw scalars
ValuesDefined(f, inputs) ==
    \A j \in 1..Len(Outs(f)) :
        LET q == RawValue(Outs(f)[j], RawEnv(f, inputs))
        IN  IsNum(q) /\ q.d # 0

\* what the function gives on raw scalars, as an engine hands values back
RawResult(f, inputs) ==
    IF f.rkind = "expr"
    THEN Scalar(RawValue(Outs(f)[1], RawEnv(f, inputs)))
    ELSE Vector([j \in 1..Len(Outs(f)) |-> RawValue(Outs(f)[j], RawEnv(f, inputs))])

\* the shape section 6 of the interface gives a derivative of M outputs
\* with respect to N inputs
ExpectedShape(f, n) ==
    IF f.rkind = "expr"
    THEN IF n = 1 THEN <<>> ELSE <<n>>
    ELSE IF n = 1 THEN <<Len(Outs(f))>> ELSE <<Len(Outs(f)), n>>

(***************************************************************************)
(* Properties                                                              *)
(***************************************************************************)
\* C1: a get_value, forward or reverse call whose inputs do not have as
\* many entries as the function has parameters (a bare scalar counts as
\* one) raises the dimension-mismatch error before the user function is
\* called and before any Dual or Node is created, and hands back no result.
C1_DimensionMismatch ==
    (IsCall(last) /\ ~Matching)
        => /\ last.outcome = "Exception"
           /\ last.ncalls = 0
           /\ last.made = 0
           /\ last.result = NoResult

C1_Witness ==
    /\ IsCall(last)
    /\ last.inputs.k = "scalar"
    /\ n_inputs = 2
    /\ last.outcome = "Exception"

\* C2: for every function of the contract and every matching input at which
\* Forward.forward returns finite derivatives, Reverse.reverse returns the
\* same derivative or Jacobian, a function that passes a parameter through
\* unchanged and a function that ignores a parameter included.
C2_ForwardReverseAgree ==
    (last.op = "forward" /\ InContract(F) /\ Matching /\ Defined(last))
        => LET r == reverse(F, n_inputs, last.inputs)
           IN  r.outcome = "ok" /\ r.result = last.result

\* C3: for a function of M >= 2 outputs and N >= 2 inputs, entry [j][i] of
\* the array Forward.forward or Reverse.reverse returns is the partial
\* derivative of output j with respect to input i.
C3_JacobianOrientation ==
    (/\ last.op \in {"forward", "reverse"}
     /\ InContract(F) /\ F.rkind = "list" /\ Len(F.outs) >= 2
     /\ n_inputs >= 2 /\ Matching
     /\ Defined(last)
     /\ PartialsDefined(F, last.inputs))
        => /\ last.result.shape = <<Len(F.outs), n_inputs>>
           /\ \A j \in 1..Len(F.outs), i \in 1..n_inputs :
                 Entry(last.result, j, i)
                     = Val(Partial(F.outs[j], F.params[i],
                                   RawEnv(F, last.inputs)))

C5_GetValueAgree ==
    (/\ last.op = "get_value" /\ InContract(F) /\ Matching
     /\ ValuesDefined(F, last.inputs))
        => /\ last.outcome = "ok"
           /\ last.result = RawResult(F, last.inputs)
           /\ Forward_get_value(F, n_inputs, last.inputs).result
                 = Reverse_get_value(F, n_inputs, last.inputs).result
           /\ Forward_get_value(F, n_inputs, ListInput(RawInputs(last.inputs))).result
                 = Forward_get_value(F, n_inputs, last.inputs).result
           /\ Reverse_get_value(F, n_inputs, ListInput(RawInputs(last.inputs))).result
                 = Reverse_get_value(F, n_inputs, last.inputs).result

\* C6: for a function whose body is one return of a bracketed list of M
\* expressions over the parameters and library calls, logb(z, base)
\* included, Reverse.reverse extracts exactly the M output expressions in
\* order and does not raise the parse failure.
C6_MultiOutputExtraction ==
    (/\ last.op = "reverse" /\ InContract(F) /\ F.rkind = "list" /\ Matching
     /\ Evaluates(F, last.inputs))
        => /\ FindallBracket(Source(F)) # <<>>
           /\ SplitComma(FindallBracket(Source(F))[1], <<>>) = UnparseAll(F.outs)
           /\ last.outcome # "ValueError"
           /\ last.ncalls = 1
           /\ last.outcome = "ok"
                 => Len(last.result.data) = Len(F.outs) * n_inputs

\* C7: Reverse.reverse raises the parse failure (ValueError) whenever a
\* multi-output function's body is not one return of a bracketed list of
\* independent expressions with at most one library alias.
C7_ParseFailure ==
    (/\ last.op = "reverse" /\ F.rkind # "expr" /\ ~InContract(F) /\ Matching
     /\ Evaluates(F, last.inputs))
        => /\ last.outcome = "ValueError"
           /\ last.result = NoResult

\* the operand of the last operator call is of a kind the call accepts:
\* int, float or the kind of the object whose method is called
Accepted(o) ==
    CASE o.kind = "Dual" -> IsScalar(o.other) \/ IsDual(o.other)
      [] o.kind = "Node" -> IsScalar(o.other) \/ IsNode(o.other)
      [] o.kind = "elem" ->
            /\ IsScalar(o.self) \/ IsDual(o.self) \/ IsNode(o.self)
            /\ o.name = "logb" => IsScalar(o.other)
      [] OTHER -> TRUE

C10_DualComparisons ==
    (/\ opres.kind = "Dual" /\ opres.name \in CompareNames
     /\ (IsScalar(opres.other) \/ IsDual(opres.other)))
        => LET a == opres.self
               b == opres.other
               bv == IF IsDual(b) THEN b.real ELSE b
               lt == a.real.n * bv.d < bv.n * a.real.d
               eq == a.real.n * bv.d = bv.n * a.real.d
               plain == IF IsDual(b) THEN Dual(b.real, PyInt(0)) ELSE b
           IN  /\ opres.v.k = "bool"
               /\ opres.name = "<" => opres.v.b = lt
               /\ opres.name = "<=" => opres.v.b = (lt \/ eq)
               /\ opres.name = ">" => opres.v.b = (~lt /\ ~eq)
               /\ opres.name = ">=" => opres.v.b = ~lt
               /\ opres.name \in {"<", "<=", ">", ">="}
                     => opres.v = DualCmp(opres.name, Dual(a.real, PyInt(0)), plain)
               /\ opres.name = "=="
                     => opres.v.b = (IsDual(b) /\ eq
                                     /\ Val(a.dual) = Val(b.dual))
               /\ opres.name = "!=" => opres.v.b = ~Dual_eq(a, b).b
               /\ IsScalar(b) => (opres.name = "==" => ~opres.v.b)
                                 /\ (opres.name = "!=" => opres.v.b)

C10_Witness ==
    /\ opres.kind = "Dual"
    /\ opres.name = "=="
    /\ IsScalar(opres.other)
    /\ NumEq(opres.self.real, opres.other)
    /\ opres.v.k = "bool"
    /\ ~opres.v.b

\* the children the edge list of node p refers to
Children(nodes, p) ==
    {nodes[p].partial_derivs[j][1] : j \in 1..Len(nodes[p].partial_derivs)}

\* C11: in every state reached by Node operators and elementary functions
\* applied one after another, every edge in the edge list of a node p refers
\* to a node created strictly after p, and so no node reaches itself along
\* edges: the graph is acyclic.
C11_EdgesPointForward ==
    \A p \in 1..Len(graph.nodes) :
        /\ \A c \in Children(graph.nodes, p) : p < c /\ c <= Len(graph.nodes)
        /\ p \notin Reach(graph.nodes, Children(graph.nodes, p))

\* a diamond: the first node has edges to two later nodes, one of which has
\* an edge to the other
C11_Witness ==
    /\ opres.kind \in {"Node", "elem"}
    /\ ~IsErr(opres.v)
    /\ Len(graph.nodes) >= 3
    /\ \E c, d \in Children(graph.nodes, 1) :
          c # d /\ d \in Children(graph.nodes, c)

\* an edge path is a sequence of edges <<p, j>> (edge j of node p), each
\* starting at the node the one before ends at
EdgeEnd(nodes, e) == nodes[e[1]].partial_derivs[e[2]][1]

EdgesFrom(nodes, p) == {<<p, j>> : j \in 1..Len(nodes[p].partial_derivs)}

\* the edge paths of k edges that start at root
RECURSIVE EdgePaths(_, _, _)
EdgePaths(nodes, root, k) ==
    IF k = 1 THEN {<<e>> : e \in EdgesFrom(nodes, root)}
    ELSE UNION {{Append(q, e) : e \in EdgesFrom(nodes, EdgeEnd(nodes, q[k - 1]))} :
                   q \in EdgePaths(nodes, root, k - 1)}

\* all edge paths that start at root and end at n
PathsTo(nodes, root, n) ==
    UNION {{q \in EdgePaths(nodes, root, k) : EdgeEnd(nodes, q[k]) = n} :
              k \in 1..Len(nodes)}

\* the product of the partials along a path
RECURSIVE PathProduct(_, _)
PathProduct(nodes, q) ==
    IF q = <<>> THEN PyInt(1)
    ELSE NumMul(PathProduct(nodes, SubSeq(q, 1, Len(q) - 1)),
                nodes[q[Len(q)][1]].partial_derivs[q[Len(q)][2]][2])

\* the sum of the path products over a set of paths
RECURSIVE PathSum(_, _)
PathSum(nodes, Q) ==
    IF Q = {} THEN PyInt(0)
    ELSE LET q == CHOOSE x \in Q : TRUE
         IN  NumAdd(PathSum(nodes, Q \ {q}), PathProduct(nodes, q))

\* a number the exact arithmetic represents
Known(x) == ~(IsErr(x) /\ x.e = "Inexact")

\* C12: the dictionary a finished _gradiant(root) call returns has an entry
\* for exactly the nodes reachable from root by at least one edge, and the
\* entry of a node n is the sum, over all edge paths from root to n, of the
\* product of the partials along the path: what arrives over different paths
\* or over parallel edges is added up.
C12_PathSum ==
    (opres.kind = "grad" /\ opres.name = "done")
        => /\ DOMAIN opres.gradiant
                 = Reach(graph.nodes, Children(graph.nodes, opres.root))
           /\ opres.gradiant = gradiant(graph.nodes, opres.root)
           /\ \A n \in DOMAIN opres.gradiant :
                 LET sum == PathSum(graph.nodes,
                                    PathsTo(graph.nodes, opres.root, n))
                 IN  (Known(sum) /\ Known(opres.gradiant[n]))
                         => Val(opres.gradiant[n]) = Val(sum)

\* a finished traversal over a graph in which a node is reached from the
\* root over parallel edges and over a longer path as well
C12_Witness ==
    /\ opres.kind = "grad"
    /\ opres.name = "done"
    /\ \E n \in DOMAIN opres.gradiant :
          /\ Cardinality(PathsTo(graph.nodes, opres.root, n)) >= 3
          /\ \E q \in PathsTo(graph.nodes, opres.root, n) : Len(q) = 2
          /\ IsFinite(opres.gradiant[n])
          /\ opres.gradiant[n].n # 0

\* the last call was made on a Node: an operator of a Node, or an
\* elementary function of a Node
OnNode(o) == o.kind = "Node" \/ (o.kind = "elem" /\ IsNode(o.self))

\* the call returned
Completed(o) == ~IsErr(o.v)

\* the Node operands of the last call, one per operand position
NodePositions(o) ==
    IF o.kind = "Node" /\ o.name # "neg" /\ IsNode(o.other)
    THEN <<o.self.id, o.other.id>>
    ELSE <<o.self.id>>

\* how many operand positions node p takes in the last call
Positions(o, p) ==
    Cardinality({i \in 1..Len(NodePositions(o)) : NodePositions(o)[i] = p})

\* the number a value or the value of a Node stands for
Operand(a, x) == IF IsNode(x) THEN RealOf(a, x) ELSE x

\* the arithmetic result of the last call on the values of its operands
Arithmetic(o) ==
    LET s == Operand(o.before, o.self)
        k == Operand(o.before, o.other)
    IN  IF o.kind = "elem"
        THEN IF o.name = "logb" THEN NumDiv(np_log(s), np_log(k))
             ELSE np_ufunc(o.name, s)
        ELSE IF o.name = "neg" THEN NumNeg(s)
        ELSE IF o.refl THEN ScalarOp(o.name, k, s)
        ELSE ScalarOp(o.name, s, k)

\* the number of edges of a graph
EdgeCount(a) ==
    LET RECURSIVE count(_)
        count(p) == IF p = 0 THEN 0
                    ELSE count(p - 1) + Len(a.nodes[p].partial_derivs)
    IN  count(Len(a.nodes))

\* C13: a Node operator or an elementary function of a Node that returns
\* has created exactly one node, which it returns, whose value is the
\* arithmetic result and whose edge list is empty, and has appended one edge
\* to that node for each Node operand position: one for a unary call and
\* for a Node with a scalar, two for two Nodes (both on the one list when
\* the same Node is both operands).  No other node or edge exists.
C13_OneNodePerCall ==
    (OnNode(opres) /\ Completed(opres))
        => LET old == opres.before.nodes
               new == graph.nodes
               child == Len(old) + 1
           IN  /\ Len(new) = child
               /\ opres.v = NodeRef(child)
               /\ new[child].partial_derivs = <<>>
               /\ Known(Arithmetic(opres))
                     => Val(new[child].real) = Val(Arithmetic(opres))
               /\ EdgeCount(graph)
                     = EdgeCount(opres.before) + Len(NodePositions(opres))
               /\ \A p \in 1..Len(old) :
                     /\ Len(new[p].partial_derivs)
                           = Len(old[p].partial_derivs) + Positions(opres, p)
                     /\ \A j \in (Len(old[p].partial_derivs) + 1)
                                    ..Len(new[p].partial_derivs) :
                           new[p].partial_derivs[j][1] = child

\* x * x on a node x that has a child already: two more edges on x's list
C13_Witness ==
    /\ opres.kind = "Node"
    /\ opres.name = "*"
    /\ opres.self = opres.other
    /\ Completed(opres)
    /\ Len(opres.before.nodes[opres.self.id].partial_derivs) = 2
    /\ Len(graph.nodes[opres.self.id].partial_derivs) = 4

\* the nodes that are operands of the last call
OperandNodes(o) ==
    {x.id : x \in {y \in {o.self, o.other} : IsNode(y)}}

\* C14: whatever the last operator or elementary-function call was and
\* whether it returned or raised, every node that existed before it has
\* the value it had, its edge list begins with the edges it had, unchanged
\* and in their order, and the edge list of a node that is not an operand
\* of the call is as it was.
C14_GraphFrame ==
    (opres.kind # "none")
        => LET old == opres.before.nodes
               new == graph.nodes
           IN  /\ Len(old) <= Len(new)
               /\ \A p \in 1..Len(old) :
                     /\ new[p].real = old[p].real
                     /\ Len(old[p].partial_derivs) <= Len(new[p].partial_derivs)
                     /\ SubSeq(new[p].partial_derivs, 1,
                               Len(old[p].partial_derivs))
                           = old[p].partial_derivs
                     /\ p \notin OperandNodes(opres)
                           => new[p].partial_derivs = old[p].partial_derivs

\* a call on the child of x alone: x keeps its two edges, the child gets one
C14_Witness ==
    /\ opres.kind = "Node"
    /\ opres.name = "/"
    /\ Completed(opres)
    /\ OperandNodes(opres) = {2}
    /\ Len(graph.nodes[1].partial_derivs) = 2
    /\ Len(graph.nodes[2].partial_derivs) = 1

\* the local partial derivatives of the result of the last Node operator
\* with respect to its Node operands, one per operand position, by the
\* rules of calculus at the operands' values before the call
LocalPartials(o) ==
    LET a == Operand(o.before, o.self)
        b == Operand(o.before, o.other)
        m1 == PyInt(-1)
    IN  IF o.name = "neg" THEN <<m1>>
        ELSE IF IsNode(o.other)
        THEN CASE o.name = "+" -> <<PyInt(1), PyInt(1)>>
               [] o.name = "-" -> <<PyInt(1), m1>>
               [] o.name = "*" -> <<b, a>>
               [] o.name = "/" ->
                     <<NumDiv(PyInt(1), b),
                       NumDiv(NumNeg(a), NumMul(b, b))>>
        ELSE IF o.refl
        THEN CASE o.name = "+" -> <<PyInt(1)>>
               [] o.name = "-" -> <<m1>>
               [] o.name = "*" -> <<b>>
               [] o.name = "/" -> <<NumDiv(NumNeg(b), NumMul(a, a))>>
        ELSE CASE o.name = "+" -> <<PyInt(1)>>
               [] o.name = "-" -> <<PyInt(1)>>
               [] o.name = "*" -> <<b>>
               [] o.name = "/" -> <<NumDiv(PyInt(1), b)>>
               [] o.name = "**" ->
                     <<NumMul(b, NumPow(a, NumSub(b, PyInt(1))))>>

\* the operators and operand kinds the table of partials covers
Tabulated(o) ==
    /\ o.kind = "Node"
    /\ o.name = "**" => (~o.refl /\ IsScalar(o.other))

\* the entries of xs at the positions where pos is p, in order
RECURSIVE AtPositions(_, _, _)
AtPositions(pos, xs, p) ==
    IF pos = <<>> THEN <<>>
    ELSE (IF Head(pos) = p THEN <<Head(xs)>> ELSE <<>>)
             \o AtPositions(Tail(pos), Tail(xs), p)

\* the partials on the edges the last call appended to the list of node p
NewPartials(o, p) ==
    LET old == Len(o.before.nodes[p].partial_derivs)
        new == graph.nodes[p].partial_derivs
    IN  [j \in 1..(Len(new) - old) |-> new[old + j][2]]

\* C15: the partial a completed Node operator records on each new edge is
\* the local partial derivative of the child with respect to that operand
\* at the operands' values: (1, 1) for a+b, (1, -1) for a-b, -1 for k-a and
\* for -a, (b.value, a.value) for a*b, k for a*k and k*a, (1/b.value,
\* -a.value/b.value^2) for a/b, 1/k for a/k, -k/a.value^2 for k/a and
\* k*a.value**(k-1) for a**k.
C15_LocalPartials ==
    (Tabulated(opres) /\ Completed(opres))
        => \A p \in OperandNodes(opres) :
              LET want == AtPositions(NodePositions(opres),
                                      LocalPartials(opres), p)
                  got == NewPartials(opres, p)
              IN  /\ Len(got) = Len(want)
                  /\ \A j \in 1..Len(want) :
                        Known(want[j]) => Val(got[j]) = Val(want[j])

\* c / x for two distinct nodes: 1/x.value on c, -c.value/x.value^2 on x
C15_Witness ==
    /\ opres.kind = "Node"
    /\ opres.name = "/"
    /\ Completed(opres)
    /\ opres.self = NodeRef(2)
    /\ opres.other = NodeRef(1)
    /\ NewPartials(opres, 1) = <<NumDiv(NumNeg(RealOf(graph, NodeRef(2))),
                                        NumMul(RealOf(graph, NodeRef(1)),
                                               RealOf(graph, NodeRef(1))))>>
    /\ NewPartials(opres, 1)[1].n < 0

\* the number of edge paths that start at root
PathCount(nodes, root) ==
    Cardinality(UNION {EdgePaths(nodes, root, k) : k \in 1..Len(nodes)})

\* C16: every _gradiant call that is started returns, whatever graph the
\* operators have built and whatever node is the root, although the
\* recursion keeps no record of the nodes it has visited: it visits one edge
\* for every edge path that starts at the root, and then returns.
C16_TraversalTerminates ==
    /\ Traversing ~> (opres.kind = "grad" /\ opres.name = "done")
    /\ []((opres.kind = "grad" /\ opres.name = "done")
              => opres.visits = PathCount(graph.nodes, opres.root))

\* a finished traversal that walked six edge paths
C16_Witness ==
    /\ opres.kind = "grad"
    /\ opres.name = "done"
    /\ opres.visits >= 6
    /\ opres.visits = PathCount(graph.nodes, opres.root)

\* the graph and the output of the one evaluation Reverse.reverse makes of
\* the function on freshly seeded nodes
Evaluation(f, inputs) ==
    CallFunc(f, [i \in 1..Len(AsSequence(inputs)) |-> NodeRef(i)],
             SeedNodes(AsSequence(inputs), EmptyArena))

\* what a traversal rooted at input i, run alone over the graph, has for
\* the output
EntryAlone(r, i) ==
    IF IsNode(r.v) THEN PathSum(r.a.nodes, PathsTo(r.a.nodes, i, r.v.id))
    ELSE PyInt(0)

\* C17: in Reverse.reverse on a function of one output the traversals
\* rooted at the inputs leave the graph the evaluation built as it is, node
\* values and edge lists alike, and each starts from an empty dictionary:
\* the entry returned for input i is the one a traversal rooted at input i
\* gives when it is run alone, whatever traversals ran before it.
C17_TraversalsIndependent ==
    (/\ last.op = "reverse" /\ F.rkind = "expr" /\ Matching
     /\ last.outcome = "ok")
        => LET r == Evaluation(F, last.inputs)
           IN  /\ last.nodes = r.a.nodes
               /\ \A i \in 1..n_inputs :
                     Known(EntryAlone(r, i))
                         => last.result.data[i] = Val(EntryAlone(r, i))

\* three inputs that all reach the one output
C17_Witness ==
    /\ last.op = "reverse"
    /\ F.rkind = "expr"
    /\ n_inputs = 3
    /\ last.outcome = "ok"
    /\ \A i \in 1..3 : last.result.data[i][1] # 0

\* the last call returned a result (some entries of which the exact
\* arithmetic may not represent)
ReturnedCall ==
    \/ last.outcome = "ok"
    \/ last.outcome = "Inexact" /\ last.result # NoResult

\* the array carries the values of the inputs of the last call, input p
\* with derivative 1 and every other input with derivative 0 (p = 0: all
\* with derivative 0)
SeededAt(duals, p) ==
    LET xs == AsSequence(last.inputs)
    IN  /\ Len(duals) = Len(xs)
        /\ \A i \in 1..Len(xs) :
              /\ IsDual(duals[i])
              /\ Val(duals[i].real) = Val(xs[i])
              /\ Val(duals[i].dual) = Val(PyInt(IF i = p THEN 1 ELSE 0))

\* C18: a Forward.forward call that returns has invoked the function once
\* per input: at invocation p every input carries its value, input p
\* carries derivative 1 and every other input derivative 0; with more than
\* one input every seed carries derivative 0 again after the last pass; with
\* one input the function is invoked once, with derivative 1.
C18_ForwardSeeding ==
    (last.op = "forward" /\ Matching /\ ReturnedCall)
        => /\ last.ncalls = n_inputs
           /\ Len(last.seeds.calls) = n_inputs
           /\ \A p \in 1..n_inputs : SeededAt(last.seeds.calls[p], p)
           /\ n_inputs > 1 => SeededAt(last.seeds.after, 0)
           /\ n_inputs = 1 => SeededAt(last.seeds.after, 1)

\* three passes over three inputs
C18_Witness ==
    /\ last.op = "forward"
    /\ last.outcome = "ok"
    /\ n_inputs = 3
    /\ last.ncalls = 3
    /\ SeededAt(last.seeds.calls[3], 3)
    /\ last.inputs.xs[1] # last.inputs.xs[2]

\* C19: in a Forward.get_value call every Dual handed to the function
\* carries derivative 0, whatever the number of inputs.
C19_EvaluateSeedsZero ==
    (last.op = "get_value" /\ engine = "Forward" /\ Matching)
        => \A p \in 1..Len(last.seeds.calls) :
              SeededAt(last.seeds.calls[p], 0)

\* the identities of an array of nodes
Ids(nodes) == {nodes[i].id : i \in 1..Len(nodes)}

\* the node sets of the multiple-output branch after a first evaluation r
\* that returned a list: one duplicate of the seeded nodes per output
InputNodes(r) ==
    CopyInputs(r.a, [i \in 1..n_inputs |-> NodeRef(i)], Len(r.v.items), <<>>)

\* the last call is a Reverse.reverse call that entered the multiple-output
\* branch with the first evaluation r
MultiOutput(r) ==
    /\ last.op = "reverse"
    /\ Matching
    /\ ~IsErr(r.v)
    /\ r.v.k = "list"

\* C20: in the multiple-output branch of Reverse.reverse the node sets of
\* the outputs are pairwise disjoint and disjoint from the seeded nodes,
\* nothing reachable from the node set of one output is reachable from the
\* node set of another, and the graph of the first evaluation is left as
\* that evaluation built it.
C20_OutputsIsolated ==
    With(Evaluation(F, last.inputs),
         LAMBDA r :
             MultiOutput(r)
                 => With(InputNodes(r),
                         LAMBDA c :
                             /\ \A j \in 1..Len(c.v) :
                                   /\ Ids(c.v[j]) \cap (1..Len(r.a.nodes)) = {}
                                   /\ \A k \in 1..Len(c.v) :
                                         j # k =>
                                             Reach(last.nodes, Ids(c.v[j]))
                                                 \cap Reach(last.nodes,
                                                            Ids(c.v[k])) = {}
                             /\ Len(last.nodes) >= Len(r.a.nodes)
                             /\ SubSeq(last.nodes, 1, Len(r.a.nodes))
                                   = r.a.nodes))

\* gradientOf(input i)[output j] read off the one graph the first
\* evaluation r built for all outputs
SharedEntry(r, j, i) == GradOf(r.a.nodes, NodeRef(i), r.v.items[j])

\* the entry Reverse.reverse returned for output j and input i, from the
\* graph of output j alone
PrivateEntry(j, i) ==
    IF n_inputs = 1 THEN last.result.data[j] ELSE Entry(last.result, j, i)

\* the last call is a Reverse.reverse call that returned for a function of
\* the contract with several outputs, first evaluated as r
SharedAndPrivate(r) ==
    /\ MultiOutput(r)
    /\ InContract(F)
    /\ ReturnedCall

\* an entry that differs between the shared graph and the private graph
Contaminated ==
    With(Evaluation(F, last.inputs),
         LAMBDA r :
             /\ SharedAndPrivate(r)
             /\ \E j \in 1..Len(r.v.items), i \in 1..n_inputs :
                   With(SharedEntry(r, j, i),
                        LAMBDA g : Known(g) /\ PrivateEntry(j, i) # Val(g)))

Parts(x) == IF IsDual(x) THEN <<x.real, x.dual>> ELSE <<x, PyInt(0)>>

\* the rules of arithmetic on (value, derivative) pairs a and b
Rule(op, a, b) ==
    CASE op = "+" -> <<NumAdd(a[1], b[1]), NumAdd(a[2], b[2])>>
      [] op = "-" -> <<NumSub(a[1], b[1]), NumSub(a[2], b[2])>>
      [] op = "*" -> <<NumMul(a[1], b[1]),
                       NumAdd(NumMul(a[1], b[2]), NumMul(a[2], b[1]))>>
      [] op = "/" -> <<NumDiv(a[1], b[1]),
                       NumDiv(NumSub(NumMul(a[2], b[1]), NumMul(a[1], b[2])),
                              NumPow(b[1], PyInt(2)))>>
      [] op = "**" -> <<NumPow(a[1], b[1]),
                        NumMul(NumMul(b[1],
                                      NumPow(a[1], NumSub(b[1], PyInt(1)))),
                               a[2])>>
      [] op = "neg" -> <<NumNeg(a[1]), NumNeg(a[2])>>

\* an exactly known finite number
Determined(x) == IsNum(x) /\ x.d # 0

\* the left and the right operand of an operator call
LeftOperand(o) == IF o.refl THEN o.other ELSE o.self

RightOperand(o) == IF o.refl THEN o.self ELSE o.other

\* a Dual operator call in one of the arrangements (Dual, Dual),
\* (Dual, scalar), (scalar, Dual); a power has a scalar exponent
Arranged(o) ==
    /\ o.kind = "Dual"
    /\ o.name \in BinNames \cup {"neg"}
    /\ IF o.refl THEN IsScalar(o.other)
       ELSE IsScalar(o.other) \/ IsDual(o.other)
    /\ o.name = "**" => ~o.refl /\ IsScalar(o.other)

\* C22: a Dual operator applied to (Dual, Dual), (Dual, scalar) or
\* (scalar, Dual) returns one new Dual whose value and derivative are the
\* ones the rules give with a scalar carrying derivative 0: sums and
\* differences by component, the negation of both components, the product
\* rule, the quotient rule, and the power rule for a scalar exponent.
C22_DualRules ==
    Arranged(opres)
        => With(Rule(opres.name, Parts(LeftOperand(opres)),
                     Parts(RightOperand(opres))),
                LAMBDA p :
                    (Determined(p[1]) /\ Determined(p[2]))
                        => /\ IsDual(opres.v)
                           /\ Val(opres.v.real) = Val(p[1])
                           /\ Val(opres.v.dual) = Val(p[2])
                           /\ graph.nduals = opres.before.nduals + 1)

\* a scalar divided by a Dual of negative value and derivative 1
C22_Witness ==
    /\ Arranged(opres)
    /\ opres.name = "/"
    /\ opres.refl
    /\ opres.self = Dual(PyInt(-1), PyInt(1))
    /\ opres.other = PyInt(2)
    /\ IsDual(opres.v)
    /\ Val(opres.v.dual) = Val(PyInt(-2))

\* the value of the argument of the last call
ArgValue(o) ==
    IF IsDual(o.self) THEN o.self.real ELSE Operand(o.before, o.self)

\* the closed-form value of the elementary function of the last call at
\* the value q of its argument
ClosedValue(o, q) ==
    IF o.name = "logb" THEN NumDiv(np_log(q), np_log(o.other))
    ELSE IF o.name = "logistic" THEN logistic_f(q)
    ELSE np_ufunc(o.name, q)

\* the closed-form derivative of the elementary function of the last call
\* at the value q of its argument
ClosedDeriv(o, q) ==
    IF o.name = "logb" THEN NumDiv(One, NumMul(q, np_log(o.other)))
    ELSE ElemDeriv(o.name, q)

\* every node of the graph before the call is as it was, but for the edge
\* list of node p
OthersKept(o, p) ==
    \A i \in 1..Len(o.before.nodes) :
        /\ graph.nodes[i].real = o.before.nodes[i].real
        /\ i # p => graph.nodes[i] = o.before.nodes[i]

\* the elementary function of a scalar: the plain value, nothing created
OnScalar(o, f) ==
    /\ IsNum(o.v)
    /\ Val(o.v) = Val(f)
    /\ graph = o.before

\* of a Dual: one new Dual (f, df * derivative), no node
OnDual(o, f, df) ==
    /\ IsDual(o.v)
    /\ Val(o.v.real) = Val(f)
    /\ Val(o.v.dual) = Val(NumMul(df, o.self.dual))
    /\ o.self.dual = PyInt(0) => Val(o.v.dual) = Val(PyInt(0))
    /\ graph.nduals = o.before.nduals + 1
    /\ graph.nodes = o.before.nodes

\* of a Node: one new child of value f, returned, and one new edge
\* (child, df), on the argument
OnChild(o, f, df) ==
    /\ IsNode(o.v)
    /\ Len(graph.nodes) = Len(o.before.nodes) + 1
    /\ o.v.id = Len(graph.nodes)
    /\ Val(graph.nodes[o.v.id].real) = Val(f)
    /\ graph.nodes[o.v.id].partial_derivs = <<>>
    /\ Len(NewPartials(o, o.self.id)) = 1
    /\ graph.nodes[o.self.id].partial_derivs
          [Len(graph.nodes[o.self.id].partial_derivs)][1] = o.v.id
    /\ Val(NewPartials(o, o.self.id)[1]) = Val(df)
    /\ OthersKept(o, o.self.id)
    /\ graph.nduals = o.before.nduals

\* C23: an elementary function of a scalar returns the plain value f(z);
\* of a Dual a new Dual (f(z.value), f'(z.value) * z.derivative), with
\* derivative 0 when the argument has derivative 0; of a Node one new child
\* node of value f(z.value), with one edge (child, f'(z.value)) appended to
\* z and the value of z as it was; logb(z, base) takes the derivative with
\* respect to z only.  (Wherever f and f' are finite at the argument.)
C23_ElementaryDispatch ==
    (opres.kind = "elem" /\ (opres.name = "logb" => IsScalar(opres.other)))
        => With(ArgValue(opres),
                LAMBDA q :
                    With(<<ClosedValue(opres, q), ClosedDeriv(opres, q)>>,
                         LAMBDA w :
                             /\ (IsScalar(opres.self) /\ Determined(w[1]))
                                   => OnScalar(opres, w[1])
                             /\ (IsDual(opres.self) /\ Determined(w[1])
                                    /\ Determined(w[2]))
                                   => OnDual(opres, w[1], w[2])
                             /\ (IsNode(opres.self) /\ Determined(w[1])
                                    /\ Determined(w[2]))
                                   => OnChild(opres, w[1], w[2])))

\* tanh of the node z = Node(0): the child has value 0, the edge partial 1
C23_Witness ==
    /\ opres.kind = "elem"
    /\ opres.name = "tanh"
    /\ IsNode(opres.self)
    /\ IsNode(opres.v)
    /\ Val(RealOf(graph, opres.v)) = Val(PyInt(0))
    /\ Val(NewPartials(opres, opres.self.id)[1]) = Val(PyInt(1))

(***************************************************************************)
(* C24                                                                     *)
(***************************************************************************)
\* the call of the engine on the inputs of the parallel call, its passes
\* run one after the other
Sequential ==
    IF opres.mode = "forward"
    THEN forward(Catalog[funcs], n_inputs, opres.inputs)
    ELSE reverse(Catalog[funcs], n_inputs, opres.inputs)

\* the units of a parallel call are all done and their rows are merged
Merged == Par /\ opres.merged

\* C24: when the sweeps of a forward call, or the per-output passes of a
\* reverse call, run as units that interleave freely, each on its own
\* seed array or node arena, and the rows are merged once every unit is
\* done, the merged call ends as the sequential call does: it returns the
\* same Jacobian, or raises where the sequential call raises
C24_ParallelAgrees ==
    Merged =>
        With(Sequential,
             LAMBDA s : last.outcome = s.outcome /\ last.result = s.result)

\* the sweeps of a forward call took their steps in between one another
\* and the merged Jacobian has a nonzero entry
C24_Witness ==
    /\ Merged
    /\ opres.mode = "forward"
    /\ opres.overlap
    /\ last.outcome = "ok"
    /\ \E p \in DOMAIN last.result.data : last.result.data[p] # Val(PyInt(0))

(***************************************************************************)
(* C25                                                                     *)
(***************************************************************************)
\* the nodes an edge leads to from root or from a node that edges lead
\* to from root
Targets(nodes, root) == EdgesOf(nodes, Reach(nodes, {root}))

\* a call of _gradiant has been entered and has not been followed by
\* another operation
InGradiant == opres.kind = "grad"

\* C25: at every step of a _gradiant(root) call the dictionary has entries
\* only for targets of edges on paths that start at root, and none for
\* root; when the call returns, root's own entry reads the default 0, and
\* so does the entry Reverse.reverse reads for an output that is an
\* input node itself
C25_RootHasNoEntry ==
    InGradiant =>
        /\ DOMAIN opres.gradiant \subseteq Targets(graph.nodes, opres.root)
        /\ opres.root \notin DOMAIN opres.gradiant
        /\ opres.name = "done" =>
              /\ GradGet(opres.gradiant, opres.root) = PyInt(0)
              /\ GradOf(graph.nodes, NodeRef(opres.root), NodeRef(opres.root))
                     = PyInt(0)

\* a _gradiant call from a root with edges has returned: other nodes have
\* nonzero entries, two edges away too, and root has none
C25_Witness ==
    /\ InGradiant
    /\ opres.name = "done"
    /\ \E c \in DOMAIN opres.gradiant :
          /\ Val(opres.gradiant[c]) # Val(PyInt(0))
          /\ c \notin EdgesOf(graph.nodes, {opres.root})
    /\ opres.root \notin DOMAIN opres.gradiant

(***************************************************************************)
(* C26                                                                     *)
(***************************************************************************)
\* the texts Reverse.reverse cuts out of the source of the function
ExtractedTexts(f) ==
    IF FindallBracket(Source(f)) = <<>> THEN <<>>
    ELSE SplitComma(FindallBracket(Source(f))[1], <<>>)

\* the rows of the array a reverse call handed back: its entries for one
\* input, the length of its first axis for more
RowsOf(result, n) == IF n = 1 THEN Len(result.data) ELSE result.shape[1]

\* a reverse call on a function that returns a list has returned
ListReturned ==
    /\ last.op = "reverse"
    /\ ReturnedCall
    /\ F.rkind \in {"list", "repeat"}

\* C26: when Reverse.reverse returns for a function that returned a list
\* of M outputs, the result has M rows (M entries for one input), and as
\* many texts were cut out of the source and evaluated as the call has
\* outputs
C26_RowPerOutput ==
    ListReturned =>
        /\ RowsOf(last.result, n_inputs) = Len(Outs(F))
        /\ Min(Len(Outs(F)), Len(ExtractedTexts(F))) = Len(Outs(F))

(***************************************************************************)
(* C27                                                                     *)
(***************************************************************************)
\* the shared evaluation of a reverse call and what the call prepares for
\* its passes: the copies of the input nodes, the texts, the names
SharedPrep(f, inputs) ==
    With([i \in 1..co_argcount(f) |-> NodeRef(i)],
         LAMBDA nodes :
             With(CallFunc(f, nodes, SeedNodes(AsSequence(inputs), EmptyArena)),
                  LAMBDA r : ReversePrep(f, nodes, r.v, r.a)))

\* one pass of the loop of Reverse.reverse on nodes seeded anew with the
\* inputs, their edge lists empty
FreshPass(f, text, env, xs) ==
    ReversePasses(f, <<[i \in 1..Len(xs) |-> NodeRef(i)]>>, <<text>>, env,
                  SeedNodes(xs, EmptyArena), <<>>, 1)

\* the rows of the passes made on freshly seeded nodes, put together as
\* Reverse.reverse puts its rows together
FreshJacobian(f, n, inputs) ==
    With(SharedPrep(f, inputs),
         LAMBDA prep :
             With(FirstErr([j \in 1..Min(Len(prep.v.copies),
                                         Len(prep.v.texts)) |->
                               FreshPass(f, prep.v.texts[j], prep.v.env,
                                         AsSequence(inputs)).v], 1),
                  LAMBDA rows :
                      IF IsErr(rows) THEN NoResult
                      ELSE With(Matrix([j \in DOMAIN rows.items |->
                                           rows.items[j].items[1]]),
                                LAMBDA m : IF n = 1 THEN Flatten(m) ELSE m)))

\* a copy of an input node has edges before its pass begins
StaleEdges(f, inputs) ==
    With(SharedPrep(f, inputs),
         LAMBDA prep :
             \E j \in DOMAIN prep.v.copies, i \in 1..co_argcount(f) :
                 prep.a.nodes[prep.v.copies[j][i].id].partial_derivs # <<>>)

\* C27: the copies of the input nodes carry the edges of the shared
\* evaluation, and these edges add nothing to the entry of the output a
\* pass evaluates: every row of the Jacobian Reverse.reverse returns for a
\* list of outputs is the row the pass gives on freshly seeded input
\* nodes with empty edge lists
C27_StaleEdgesInert ==
    ListReturned => last.result = FreshJacobian(F, n_inputs, last.inputs)

\* a reverse call on several outputs has returned a Jacobian with a
\* nonzero entry, and the copies it made had edges of the shared
\* evaluation
C27_Witness ==
    /\ ListReturned
    /\ Len(Outs(F)) >= 2
    /\ StaleEdges(F, last.inputs)
    /\ \E p \in DOMAIN last.result.data : last.result.data[p] # Val(PyInt(0))
    /\ last.outcome = "ok"

(***************************************************************************)
(* C28                                                                     *)
(***************************************************************************)
\* the names an expression mentions
RECURSIVE NamesIn(_)
NamesIn(e) ==
    CASE e[1] = "var" -> {e[2]}
      [] e[1] = "const" -> {}
      [] e[1] = "neg" -> NamesIn(e[2])
      [] e[1] = "bin" -> NamesIn(e[3]) \cup NamesIn(e[4])
      [] e[1] = "call" -> NamesIn(e[4])
      [] e[1] = "call2" -> NamesIn(e[4]) \cup NamesIn(e[5])

\* output j of the function does not depend on input i: its expression
\* does not mention parameter i
Independent(f, j, i) == f.params[i] \notin NamesIn(Outs(f)[j])

\* entry [j][i] of a derivative of M outputs with respect to n inputs
Reported(result, n, j, i) == result.data[(j - 1) * n + i]

\* a forward or reverse call on a function of the contract, at inputs at
\* which every output and every partial derivative is defined
DefinedPoint ==
    /\ last.op \in {"forward", "reverse"}
    /\ InContract(F)
    /\ Matching
    /\ ValuesDefined(F, last.inputs)
    /\ PartialsDefined(F, last.inputs)

\* C28: when an output does not depend on input i, either engine returns
\* without an error and the derivative it reports for that output and
\* input is exactly 0
C28_IndependentIsZero ==
    (/\ DefinedPoint
     /\ \E j \in 1..Len(Outs(F)), i \in 1..n_inputs : Independent(F, j, i))
        => /\ last.outcome = "ok"
           /\ \A j \in 1..Len(Outs(F)), i \in 1..n_inputs :
                 Independent(F, j, i)
                     => Reported(last.result, n_inputs, j, i) = Val(PyInt(0))

(***************************************************************************)
(* C29                                                                     *)
(***************************************************************************)
\* the derivative components the inputs can be given: 0 or 1 each
SeedChoices(n) == [1..n -> {PyInt(0), PyInt(1)}]

\* the value components of what the function returned
ValuesOf(v) ==
    IF IsErr(v) THEN v
    ELSE IF IsDual(v) THEN v.real
    ELSE IF IsNum(v) THEN v
    ELSE Collect(v, AttrReal)

\* the values the function gives on Duals of the inputs xs that carry the
\* derivative components seeds
ValuesUnder(f, xs, seeds) ==
    ValuesOf(CallFunc(f, [i \in 1..Len(xs) |-> Dual(xs[i], seeds[i])],
                      EmptyArena).v)

\* the values as get_value hands them back
AsReturned(f, z) == IF f.rkind = "expr" THEN Scalar(z) ELSE Vector(z.items)

\* a value the exact arithmetic cannot represent
Unknown(x) == IsErr(x) /\ x.e = "Inexact"

\* two outcomes of an evaluation are the same as far as the exact
\* arithmetic determines them: the same error, the same number, lists of
\* the same length with the same entries
SameValues(v, z) ==
    IF Unknown(v) \/ Unknown(z) THEN TRUE
    ELSE IF IsErr(v) \/ IsErr(z) \/ IsNum(v) \/ IsNum(z) THEN v = z
    ELSE /\ Len(v.items) = Len(z.items)
         /\ \A p \in 1..Len(v.items) :
               Unknown(v.items[p]) \/ Unknown(z.items[p])
                   \/ v.items[p] = z.items[p]

\* C29: the values the function computes on Duals are the same whatever
\* derivative components the inputs carry, in every forward pass and under
\* every choice of seeds, and Forward.get_value ends as the evaluation
\* with every seed 0 does: it returns the values of that evaluation, or
\* raises where that evaluation raises (wherever the exact arithmetic
\* determines the outcomes)
C29_ValuesIgnoreSeeds ==
    (last.op = "get_value" /\ engine = "Forward" /\ Matching)
        => With(ValuesUnder(F, AsSequence(last.inputs),
                            [i \in 1..n_inputs |-> PyInt(0)]),
                LAMBDA z :
                    /\ \A seeds \in SeedChoices(n_inputs) :
                          SameValues(ValuesUnder(F, AsSequence(last.inputs),
                                                 seeds), z)
                    /\ (last.outcome # "Inexact" /\ ~Unknown(z))
                           => IF IsErr(z)
                              THEN last.outcome = z.e
                              ELSE /\ last.outcome = "ok"
                                   /\ last.result = AsReturned(F, z))

\* Forward.get_value has returned the nonzero values of several outputs
\* of several inputs
C29_Witness ==
    /\ last.op = "get_value"
    /\ engine = "Forward"
    /\ last.outcome = "ok"
    /\ n_inputs >= 2
    /\ Len(last.result.data) >= 2
    /\ \A p \in DOMAIN last.result.data : last.result.data[p] # Val(PyInt(0))

(***************************************************************************)
(* C30                                                                     *)
(***************************************************************************)
\* a Dual operator call with a scalar k as the other operand: a op k, or
\* k op a when reflected
ScalarCall(o) ==
    /\ o.kind = "Dual"
    /\ o.name \in BinNames
    /\ IsScalar(o.other)

\* the same call with Dual(k, 0) in the place of the scalar k
Embedded(o) ==
    IF o.refl THEN DualOp(o.name, Dual(o.other, PyInt(0)), o.self)
    ELSE DualOp(o.name, o.self, Dual(o.other, PyInt(0)))

\* the call raised nothing and gave a Dual of two finite numbers
DefinedDual(v) == IsDual(v) /\ Determined(v.real) /\ Determined(v.dual)

\* C30: a op k gives the value and the derivative a op Dual(k, 0) gives,
\* and k op a the ones Dual(k, 0) op a gives, for the five arithmetic
\* operators; the one form is defined (raises nothing, gives finite
\* numbers) exactly where the other is, for values and scalars <= 0 too
C30_ScalarEmbedding ==
    ScalarCall(opres)
        => With(Embedded(opres),
                LAMBDA e :
                    (~Unknown(opres.v) /\ ~Unknown(e))
                        => /\ DefinedDual(opres.v) <=> DefinedDual(e)
                           /\ DefinedDual(e)
                                 => /\ Val(opres.v.real) = Val(e.real)
                                    /\ Val(opres.v.dual) = Val(e.dual))

====
